---------------------------- MODULE Spec2Model ----------------------------
(***************************************************************************)
(* Knowledge-organization core: RelationshipExtractor, GraphBuilder,       *)
(* GraphOptimizer and the Relationship / Graph entity model.               *)
(*                                                                         *)
(* Numbers.  Weights and quality scores are fixed-point with denominator   *)
(* WeightScale (1.0 = 10000); similarity scores are in hundredths          *)
(* (0.7 = 70).  Time is in seconds.                                        *)
(*                                                                         *)
(* Methods that the sources call but do not define (Graph.get_relationships,*)
(* Neo4jConnection.begin_transaction, Relationship.batch_save, the          *)
(* validate() call on an input node) are given the behaviour the design    *)
(* document states for them; each such definition says so.                 *)
(***************************************************************************)
EXTENDS Integers, Sequences, FiniteSets, TLC

VARIABLES
    now,                  \* wall clock, seconds
    ex_nodes,             \* extract_relationships: the nodes argument of the last call
    ex_batch_size,        \* extract_relationships: the batch_size argument of the last call
    ex_sims,              \* the similarity collaborator's answers during the last call
    ex_result,            \* what the last call returned: [status, relationships]
    ex_calls,             \* number of extract_relationships calls so far
    relationship_cache,   \* RelationshipExtractor._relationship_cache
    next_id,              \* source of fresh relationship ids (uuid4)
    store,                \* the graph store: [nodes, rels]
    graph,                \* the Graph object of the current build: [id, nodes, relationships]
    builder,              \* GraphBuilder.build_graph: position and locals of the current call
    optimizer,            \* GraphOptimizer: _metrics_cache and the position of optimize
    holders               \* Relationship objects held by the store's clients

vars == <<now, ex_nodes, ex_batch_size, ex_sims, ex_result, ex_calls,
          relationship_cache, next_id, store, graph, builder, optimizer, holders>>

\* the state of the components other than the RelationshipExtractor
others == <<store, graph, builder, optimizer, holders>>

(***************************************************************************)
(* Program constants                                                       *)
(***************************************************************************)
WeightScale == 10000

\* A similarity threshold lower than the program's
SIMILARITY_THRESHOLD_Lowered == 70 - 10
SIMILARITY_THRESHOLD == 70
MAX_RELATIONSHIPS_PER_NODE == 20
BATCH_SIZE == 100
CACHE_TTL == 3600
MAX_BATCH_SIZE == 1000

RELATIONSHIP_TYPES == {"IS_PREREQUISITE", "IS_RELATED", "CONTAINS", "REFERENCES", "EXTENDS"}

\* RELATIONSHIP_WEIGHTS, in tenths; .get(type, 0.5) for an unknown type
RELATIONSHIP_WEIGHTS(type) ==
    CASE type = "IS_PREREQUISITE" -> 10
      [] type = "IS_RELATED"      -> 7
      [] type = "CONTAINS"        -> 9
      [] type = "REFERENCES"      -> 6
      [] type = "EXTENDS"         -> 8
      [] OTHER                    -> 5

(***************************************************************************)
(* Bounds of the model                                                     *)
(***************************************************************************)
MaxNodes == 2          \* longest freely chosen node list
MaxCalls == 2          \* extract_relationships calls in one behaviour
MaxTicks == 2          \* clock ticks in one behaviour
TickSeconds == 1800    \* length of one clock tick
MaxFanoutNodes == 8    \* longest node list of the fan-out specification

(***************************************************************************)
(* Helpers                                                                 *)
(***************************************************************************)
Min(a, b) == IF a <= b THEN a ELSE b
Max(a, b) == IF a >= b THEN a ELSE b
Range(s) == {s[i] : i \in 1..Len(s)}

RECURSIVE SeqsUpTo(_, _)
SeqsUpTo(S, n) ==
    IF n = 0 THEN {<<>>}
    ELSE LET shorter == SeqsUpTo(S, n - 1)
         IN  shorter \cup {Append(s, x) : s \in {t \in shorter : Len(t) = n - 1}, x \in S}

\* Python: a in b, for strings written as sequences of letters
IsSubstring(a, b) ==
    \E k \in 0..(Len(b) - Len(a)) : \A i \in 1..Len(a) : b[k + i] = a[i]

(***************************************************************************)
(* Input nodes of extract_relationships.  A node is the dict the caller    *)
(* passes; an absent key is written as the default that .get() supplies:   *)
(* level 0, scope "", type "none", no references, quality_score 0.5.       *)
(* quality_score is not validated anywhere, so a value above 1.0 is a      *)
(* possible input.  The quality scores used are 0.5 and 1.5, so that every *)
(* weight the extractor computes is a whole number of 1/WeightScale.       *)
(***************************************************************************)
Plain(i) ==
    [id |-> i, level |-> 0, scope |-> <<>>, type |-> "none", references |-> {},
     quality_score |-> 5000]
Intro(i) ==
    [id |-> i, level |-> 1, scope |-> <<1, 2>>, type |-> "video", references |-> {1},
     quality_score |-> 5000]
Advanced(i) ==
    [id |-> i, level |-> 2, scope |-> <<1>>, type |-> "video", references |-> {1},
     quality_score |-> 15000]
Other(i) ==
    [id |-> i, level |-> 0, scope |-> <<2>>, type |-> "video", references |-> {},
     quality_score |-> 5000]

\* a node dict with id and level only
Level(i, level) == [Plain(i) EXCEPT !.level = level]

NodeUniverse == {Plain(1), Intro(2), Advanced(3), Other(1)}

\* Similarity answers of the collaborator, in hundredths; SimFail: the call raised
SimFail == 0 - 1
Scores == {65, 70, 85, 95}

(***************************************************************************)
(* RelationshipExtractor: pure parts                                       *)
(***************************************************************************)
\* determine_relationship_type: ordered rules, first match wins; "none" is None
determine_relationship_type(source_node, target_node, similarity_score) ==
    IF source_node.level < target_node.level /\ similarity_score > 80
        THEN "IS_PREREQUISITE"
    ELSE IF IsSubstring(source_node.scope, target_node.scope) /\ similarity_score > 85
        THEN "CONTAINS"
    ELSE IF source_node.type = target_node.type /\ similarity_score > 90
        THEN "EXTENDS"
    ELSE IF source_node.references \cap target_node.references # {}
        THEN "REFERENCES"
    ELSE IF similarity_score >= SIMILARITY_THRESHOLD
        THEN "IS_RELATED"
    ELSE "none"

\* calculate_relationship_weight: base * similarity * avg(quality), clamped to [0, 1].
\* base is in tenths, similarity in hundredths, the qualities in 1/WeightScale:
\* base/10 * sim/100 * (qs + qt)/2 = base * sim * (qs + qt) / 2000, in 1/WeightScale.
calculate_relationship_weight(relationship_type, similarity_score, source_quality, target_quality) ==
    LET base_weight == RELATIONSHIP_WEIGHTS(relationship_type)
        weight == (base_weight * similarity_score * (source_quality + target_quality)) \div 2000
    IN  Max(0, Min(WeightScale, weight))

\* Relationship.__post_init__: the checks that make construction raise
RelationshipValid(type, source_id, target_id, weight) ==
    /\ type \in RELATIONSHIP_TYPES
    /\ 0 <= weight /\ weight <= WeightScale

\* The Relationship object a successful construction yields
Relationship(id, type, source_id, target_id, weight, similarity_score) ==
    [id |-> id, type |-> type, source_id |-> source_id, target_id |-> target_id,
     weight |-> weight, similarity_score |-> similarity_score, version |-> 1]

\* sorted(relationships, key=weight, reverse=True): stable, equal weights keep their order
SortByWeightDesc(rels) ==
    LET n == Len(rels)
        pos == [i \in 1..n |->
                  1 + Cardinality({j \in 1..n :
                        \/ rels[j].weight > rels[i].weight
                        \/ rels[j].weight = rels[i].weight /\ j < i})]
        inv == [k \in 1..n |-> CHOOSE i \in 1..n : pos[i] = k]
    IN  [k \in 1..n |-> rels[inv[k]]]

\* One pass of the per-node limit loop with the comparison off by one
AdmitUnderLimit_OffByOne(rel, st) ==
    LET source_count == st.node_relationships[rel.source_id]
        target_count == st.node_relationships[rel.target_id]
    IN  IF source_count <= MAX_RELATIONSHIPS_PER_NODE
           /\ target_count <= MAX_RELATIONSHIPS_PER_NODE
        THEN [node_relationships |->
                  [[st.node_relationships EXCEPT ![rel.source_id] = source_count + 1]
                       EXCEPT ![rel.target_id] = target_count + 1],
              final_relationships |-> Append(st.final_relationships, rel)]
        ELSE st

\* One pass of the per-node limit loop that stops one relationship early
AdmitUnderLimit_Early(rel, st) ==
    LET source_count == st.node_relationships[rel.source_id]
        target_count == st.node_relationships[rel.target_id]
    IN  IF source_count + 1 < MAX_RELATIONSHIPS_PER_NODE
           /\ target_count + 1 < MAX_RELATIONSHIPS_PER_NODE
        THEN [node_relationships |->
                  [[st.node_relationships EXCEPT ![rel.source_id] = source_count + 1]
                       EXCEPT ![rel.target_id] = target_count + 1],
              final_relationships |-> Append(st.final_relationships, rel)]
        ELSE st

\* One pass of the per-node limit loop of filter_relationships (lines 311-322):
\* rel is admitted while both of its ends have fewer than
\* MAX_RELATIONSHIPS_PER_NODE admitted relationships.  For a relationship from a
\* node to itself the second assignment counts from the count read before the first.
AdmitUnderLimit(rel, st) ==
    LET source_count == st.node_relationships[rel.source_id]
        target_count == st.node_relationships[rel.target_id]
    IN  IF source_count < MAX_RELATIONSHIPS_PER_NODE
           /\ target_count < MAX_RELATIONSHIPS_PER_NODE
        THEN [node_relationships |->
                  [[st.node_relationships EXCEPT ![rel.source_id] = source_count + 1]
                       EXCEPT ![rel.target_id] = target_count + 1],
              final_relationships |-> Append(st.final_relationships, rel)]
        ELSE st

\* The per-node limit loop over filtered[lo..hi], in order, from the state st
RECURSIVE EnforceLimit(_, _, _, _)
EnforceLimit(filtered, lo, hi, st) ==
    IF lo > hi \/ DOMAIN st.node_relationships = {} THEN st
    ELSE IF lo = hi THEN AdmitUnderLimit(filtered[lo], st)
    ELSE EnforceLimit(filtered, (lo + hi) \div 2 + 1, hi,
             EnforceLimit(filtered, lo, (lo + hi) \div 2, st))

\* filter_relationships
filter_relationships(relationships) ==
    LET sorted_relationships == SortByWeightDesc(relationships)
        Keep(r) == r.similarity_score >= SIMILARITY_THRESHOLD
        filtered == SelectSeq(sorted_relationships, Keep)
        ids == {filtered[k].source_id : k \in 1..Len(filtered)}
                 \cup {filtered[k].target_id : k \in 1..Len(filtered)}
    IN  IF relationships = <<>> THEN <<>>
        ELSE EnforceLimit(filtered, 1, Len(filtered),
                          [node_relationships |-> [i \in ids |-> 0],
                           final_relationships |-> <<>>]).final_relationships

(***************************************************************************)
(* RelationshipExtractor.extract_relationships                             *)
(***************************************************************************)
\* _get_cached_relationship: the entry is returned while younger than CACHE_TTL
CacheHit(cache, cache_key, t) ==
    /\ cache_key \in DOMAIN cache
    /\ t - cache[cache_key].timestamp < CACHE_TTL

\* _cache_relationship filing the relationship under both orders of the key
CachePut_Unordered(cache, cache_key, relationship, t) ==
    (cache_key :> [timestamp |-> t, relationship |-> relationship])
        @@ (<<cache_key[2], cache_key[1]>> :> [timestamp |-> t, relationship |-> relationship])
        @@ cache

\* _cache_relationship
CachePut(cache, cache_key, relationship, t) ==
    (cache_key :> [timestamp |-> t, relationship |-> relationship]) @@ cache

\* batch_size = min(batch_size or BATCH_SIZE, len(nodes))
EffectiveBatchSize(batch_size, n) ==
    Min(IF batch_size = 0 THEN BATCH_SIZE ELSE batch_size, n)

\* The pairs (i, j), i < j <= hi, for i in first..last, in order
RECURSIVE PairRows(_, _, _)
PairRows(first, last, hi) ==
    IF first > last THEN <<>>
    ELSE IF first = last THEN [k \in 1..(hi - first) |-> <<first, first + k>>]
    ELSE PairRows(first, (first + last) \div 2, hi)
           \o PairRows((first + last) \div 2 + 1, last, hi)

\* node_pairs of the batch that covers positions lo..hi of the list, in the order
\* of the comprehension: (i, j) with i < j, i outermost
NodePairs(lo, hi) == PairRows(lo, hi - 1, hi)

\* All pairs compared in one call: positions of the same batch
RECURSIVE AllNodePairs(_, _, _)
AllNodePairs(lo, n, size) ==
    IF lo > n THEN <<>>
    ELSE NodePairs(lo, Min(lo + size - 1, n)) \o AllNodePairs(lo + size, n, size)

\* One pass of the loop over similarity_tasks (lines 119-154), for the pair
\* task.  st is the extractor's running state: the cache, the relationships
\* list, the next fresh id, and whether an awaited similarity task raised.
ProcessSimilarityResult(nodes, task, sims, t, st) ==
    LET source == nodes[task[1]]
        target == nodes[task[2]]
        similarity_score == sims[task]
        relationship_type ==
            determine_relationship_type(source, target, similarity_score)
        weight == calculate_relationship_weight(relationship_type, similarity_score,
                      source.quality_score, target.quality_score)
        relationship == Relationship(st.next_id, relationship_type, source.id,
                            target.id, weight, similarity_score)
    IN  IF similarity_score = SimFail
            THEN [st EXCEPT !.failed = TRUE]
        ELSE IF similarity_score >= SIMILARITY_THRESHOLD /\ relationship_type # "none"
            THEN IF RelationshipValid(relationship_type, source.id, target.id, weight)
                 THEN [st EXCEPT
                          !.cache = CachePut(@, <<source.id, target.id>>, relationship, t),
                          !.relationships = Append(@, relationship),
                          !.next_id = @ + 1]
                 ELSE [st EXCEPT !.failed = TRUE]
        ELSE st

\* The loop over similarity_tasks[lo..hi], in order; an exception ends it
RECURSIVE ProcessSimilarityResults(_, _, _, _, _, _, _)
ProcessSimilarityResults(nodes, tasks, lo, hi, sims, t, st) ==
    IF st.failed \/ lo > hi THEN st
    ELSE IF lo = hi THEN ProcessSimilarityResult(nodes, tasks[lo], sims, t, st)
    ELSE ProcessSimilarityResults(nodes, tasks, (lo + hi) \div 2 + 1, hi, sims, t,
             ProcessSimilarityResults(nodes, tasks, lo, (lo + hi) \div 2, sims, t, st))

\* One batch (lines 90-154): cached pairs are appended first, the others are
\* requested from the similarity collaborator and then processed in order
ProcessBatch(nodes, lo, hi, sims, t, st) ==
    LET node_pairs == NodePairs(lo, hi)
        Key(p) == <<nodes[p[1]].id, nodes[p[2]].id>>
        Cached(p) == CacheHit(st.cache, Key(p), t)
        NotCached(p) == ~Cached(p)
        hits == SelectSeq(node_pairs, Cached)
        similarity_tasks == SelectSeq(node_pairs, NotCached)
        with_cached == st.relationships
                         \o [k \in 1..Len(hits) |-> st.cache[Key(hits[k])].relationship]
    IN  ProcessSimilarityResults(nodes, similarity_tasks, 1, Len(similarity_tasks), sims, t,
            [st EXCEPT !.relationships = with_cached,
                       !.requested = @ \cup Range(similarity_tasks)])

RECURSIVE ProcessBatches(_, _, _, _, _, _)
ProcessBatches(nodes, lo, size, sims, t, st) ==
    IF lo > Len(nodes) \/ st.failed THEN st
    ELSE ProcessBatches(nodes, lo + size, size, sims, t,
             ProcessBatch(nodes, lo, Min(lo + size - 1, Len(nodes)), sims, t, st))

\* extract_relationships: the outcome of one call: what it returned or that it
\* raised, the cache and id source it leaves, the pairs whose similarity it
\* requested, and how many relationships it had found before filtering
extract_relationships(nodes, batch_size, sims, cache, fresh, t) ==
    LET st0 == [cache |-> cache, relationships |-> <<>>, next_id |-> fresh,
                failed |-> FALSE, requested |-> {}]
        st == IF nodes = <<>> THEN st0
              ELSE ProcessBatches(nodes, 1, EffectiveBatchSize(batch_size, Len(nodes)),
                                  sims, t, st0)
    IN  IF st.failed
        THEN [status |-> "raised", relationships |-> <<>>, cache |-> st.cache,
              next_id |-> st.next_id, requested |-> st.requested,
              found |-> Len(st.relationships)]
        ELSE [status |-> "returned", relationships |-> filter_relationships(st.relationships),
              cache |-> st.cache, next_id |-> st.next_id, requested |-> st.requested,
              found |-> Len(st.relationships)]

(***************************************************************************)
(* The graph store and the entity model (models/relationship.py,           *)
(* models/graph.py).  store.nodes is the set of ids of the persisted       *)
(* nodes; store.rels maps the id of a persisted relationship to its        *)
(* properties.  The store is one database: no query of the program         *)
(* restricts itself to the relationships of one Graph object.              *)
(***************************************************************************)
EmptyStore == [nodes |-> {}, rels |-> <<>>]

\* an absent property of a stored relationship
Absent == 0

\* Relationship.validate_properties; properties is the dict as a record
validate_properties(properties) ==
    /\ "type" \in DOMAIN properties => properties.type \in RELATIONSHIP_TYPES
    /\ "weight" \in DOMAIN properties =>
           0 <= properties.weight /\ properties.weight <= WeightScale

\* Relationship.async_save: MATCH both end nodes, MERGE the relationship by id and
\* SET every property, the version included.  When an end node is not persisted
\* the MATCH yields no row, nothing is written and the call still returns True.
async_save(st, rel) ==
    IF rel.source_id \in st.nodes /\ rel.target_id \in st.nodes
    THEN [st EXCEPT !.rels = (rel.id :> rel) @@ @]
    ELSE st

\* Relationship.async_update: the stored relationship is changed only WHERE
\* r.version = $current_version; an empty result raises and leaves the object as
\* it was; on success the object's version is raised by one (its weight attribute
\* is not touched: only metadata is updated locally)
async_update(st, rel, properties) ==
    IF ~validate_properties(properties) THEN [ok |-> FALSE, store |-> st, rel |-> rel]
    ELSE IF rel.id \in DOMAIN st.rels /\ st.rels[rel.id].version = rel.version
    THEN [ok |-> TRUE,
          store |-> [st EXCEPT !.rels[rel.id] =
                        [k \in DOMAIN @ |->
                            IF k = "version" THEN rel.version + 1
                            ELSE IF k \in DOMAIN properties THEN properties[k]
                            ELSE @[k]]],
          rel |-> [rel EXCEPT !.version = @ + 1]]
    ELSE [ok |-> FALSE, store |-> st, rel |-> rel]

\* Relationship.batch_save is called by Graph.add_relationships_batch and is not
\* defined in the sources; it is the store's "batch upsert relationships": every
\* relationship of the group is saved as async_save saves one
RECURSIVE batch_save(_, _)
batch_save(st, rel_group) ==
    IF rel_group = <<>> THEN st
    ELSE batch_save(async_save(st, Head(rel_group)), Tail(rel_group))

\* A new Graph object: build_graph makes graphs of DEFAULT_GRAPH_TYPE.  Of the
\* metadata dictionary the keys that optimize writes are modelled.
NewGraph(id) ==
    [id |-> id, type |-> "KNOWLEDGE_GRAPH", nodes |-> <<>>, relationships |-> <<>>,
     metadata |-> <<>>]
NoGraph == NewGraph(0)

\* Graph.add_node(node): node.save() MERGEs the node by id, then the node is
\* appended to graph.nodes.  The block runs inside begin_transaction(), which the
\* sources call and do not define: it is the store's transaction, committed when
\* the block ends.  The validate() call on the node is not defined either and is
\* taken to pass.
add_node(g, st, node) ==
    [graph |-> [g EXCEPT !.nodes = Append(@, node.id)],
     store |-> [st EXCEPT !.nodes = @ \cup {node.id}]]

\* grouped_relationships: the types in order of first appearance
RECURSIVE TypesInOrder(_, _)
TypesInOrder(rels, seen) ==
    IF rels = <<>> THEN <<>>
    ELSE IF Head(rels).type \in seen THEN TypesInOrder(Tail(rels), seen)
    ELSE <<Head(rels).type>> \o TypesInOrder(Tail(rels), seen \cup {Head(rels).type})

\* the loop over grouped_relationships.items() (lines 186-188)
RECURSIVE SaveGroups(_, _, _, _)
SaveGroups(g, st, valid_relationships, types) ==
    IF types = <<>> THEN [graph |-> g, store |-> st]
    ELSE LET OfType(r) == r.type = Head(types)
             rel_group == SelectSeq(valid_relationships, OfType)
         IN  SaveGroups([g EXCEPT !.relationships = @ \o rel_group],
                        batch_save(st, rel_group), valid_relationships, Tail(types))

\* Graph.add_relationships_batch(relationships): invalid relationships are
\* skipped, the others are saved group by group and appended to
\* graph.relationships
add_relationships_batch(g, st, relationships) ==
    LET Valid(r) == validate_properties([type |-> r.type, weight |-> r.weight])
        valid_relationships == SelectSeq(relationships, Valid)
    IN  IF Len(relationships) > MAX_BATCH_SIZE
        THEN [ok |-> FALSE, graph |-> g, store |-> st]
        ELSE LET out == SaveGroups(g, st, valid_relationships,
                                   TypesInOrder(valid_relationships, {}))
             IN  [ok |-> TRUE, graph |-> out.graph, store |-> out.store]

(***************************************************************************)
(* GraphSchema (schemas/graph.py): the validation of graph data.  A node   *)
(* is written as its id, as in the Graph object of the model.              *)
(***************************************************************************)
GRAPH_TYPES == {"KNOWLEDGE_GRAPH", "TOPIC_GRAPH", "PREREQUISITE_GRAPH", "SEMANTIC_GRAPH"}

\* Graph(name, type): a new Graph object of a type that __post_init__ accepts
Graph(id, type) == [NewGraph(id) EXCEPT !.type = type]

\* RelationshipSchema: validate_type, the bounds of the weight field and
\* validate_source_target
RelationshipSchemaValid(rel) ==
    /\ rel.type \in RELATIONSHIP_TYPES
    /\ 0 <= rel.weight /\ rel.weight <= WeightScale
    /\ rel.source_id # rel.target_id

\* the keys of the dict graph of _has_cycle: the sources in order of first appearance
RECURSIVE SourcesInOrder(_, _)
SourcesInOrder(edges, seen) ==
    IF edges = <<>> THEN <<>>
    ELSE IF Head(edges)[1] \in seen THEN SourcesInOrder(Tail(edges), seen)
    ELSE <<Head(edges)[1]>> \o SourcesInOrder(Tail(edges), seen \cup {Head(edges)[1]})

\* graph.get(vertex, []): the targets of the edges from vertex, in list order
RECURSIVE Neighbors(_, _)
Neighbors(edges, vertex) ==
    IF edges = <<>> THEN <<>>
    ELSE IF Head(edges)[1] = vertex
         THEN <<Head(edges)[2]>> \o Neighbors(Tail(edges), vertex)
         ELSE Neighbors(Tail(edges), vertex)

\* dfs(vertex) of _has_cycle; st holds the sets visited and path and whether a
\* call has returned True
dfs_leave(vertex, st) ==
    IF st.found THEN st ELSE [st EXCEPT !.path = @ \ {vertex}]

RECURSIVE dfs(_, _, _), dfs_neighbors(_, _, _)
dfs_neighbors(edges, neighbors, st) ==
    IF st.found \/ neighbors = <<>> THEN st
    ELSE IF Head(neighbors) \notin st.visited
         THEN dfs_neighbors(edges, Tail(neighbors), dfs(edges, Head(neighbors), st))
         ELSE IF Head(neighbors) \in st.path
              THEN [st EXCEPT !.found = TRUE]
              ELSE dfs_neighbors(edges, Tail(neighbors), st)

dfs(edges, vertex, st) ==
    dfs_leave(vertex,
              dfs_neighbors(edges, Neighbors(edges, vertex),
                            [st EXCEPT !.visited = @ \cup {vertex},
                                       !.path = @ \cup {vertex}]))

\* the loop "for vertex in graph" of _has_cycle
RECURSIVE has_cycle_from(_, _, _)
has_cycle_from(edges, vertices, st) ==
    IF st.found THEN TRUE
    ELSE IF vertices = <<>> THEN FALSE
    ELSE IF Head(vertices) \in st.visited
         THEN has_cycle_from(edges, Tail(vertices), st)
         ELSE has_cycle_from(edges, Tail(vertices), dfs(edges, Head(vertices), st))

\* _has_cycle(edges)
has_cycle(edges) ==
    has_cycle_from(edges, SourcesInOrder(edges, {}),
                   [found |-> FALSE, visited |-> {}, path |-> {}])

\* GraphSchema.validate_relationships: TRUE when the validator returns the
\* relationships, FALSE when it raises
validate_relationships(nodes, relationships, type) ==
    IF nodes = <<>> THEN TRUE
    ELSE /\ \A k \in 1..Len(relationships) :
               /\ relationships[k].source_id \in Range(nodes)
               /\ relationships[k].target_id \in Range(nodes)
         /\ type = "PREREQUISITE_GRAPH" =>
               ~has_cycle([k \in 1..Len(relationships) |->
                             <<relationships[k].source_id, relationships[k].target_id>>])

\* GraphSchema(**data) for the data of the Graph object g: every relationship
\* passes RelationshipSchema, then the validators of GraphSchema run
GraphSchemaValid(g) ==
    /\ g.type \in GRAPH_TYPES
    /\ \A k \in 1..Len(g.relationships) : RelationshipSchemaValid(g.relationships[k])
    /\ validate_relationships(g.nodes, g.relationships, g.type)

(***************************************************************************)
(* GraphOptimizer (core/graph_optimizer.py).  The networkx calls are       *)
(* modelled by what they compute.                                          *)
(***************************************************************************)
MIN_RELATIONSHIP_WEIGHT == 1000      \* 0.1
MAX_RELATIONSHIP_WEIGHT == 10000     \* 1.0
OPTIMIZATION_BATCH_SIZE == 100
METRICS_CACHE_TTL == 300
\* optimization_config.get('min_clustering', 0.3), in tenths
MIN_CLUSTERING == 3
\* nx.pagerank defaults: alpha = 0.85 (in hundredths), max_iter = 100
PAGERANK_ALPHA == 85
PAGERANK_MAX_ITER == 100

\* Graph.get_relationships is called by the optimizer and is not defined in the
\* sources; it is the store's "read relationships": the persisted relationships,
\* in the order of their ids
get_relationships(st) ==
    LET ids == DOMAIN st.rels
        Rank(i) == Cardinality({j \in ids : j < i})
        At(k) == CHOOSE i \in ids : Rank(i) = k - 1
    IN  [k \in 1..Cardinality(ids) |-> st.rels[At(k)]]

Edge(rel) == <<rel.source_id, rel.target_id>>

\* The distinct edges of a list of relationships, in the order add_edge first sees them
EdgeOrder(rels) ==
    LET firsts == {k \in 1..Len(rels) : \A j \in 1..(k - 1) : Edge(rels[j]) # Edge(rels[k])}
        At(n) == CHOOSE k \in firsts : Cardinality({j \in firsts : j < k}) = n - 1
    IN  [n \in 1..Cardinality(firsts) |-> Edge(rels[At(n)])]

\* The distinct nodes of a list of edges, in the order add_edge first sees them
RECURSIVE NodeOrder(_, _)
NodeOrder(edges, seen) ==
    IF edges = <<>> THEN <<>>
    ELSE LET u == Head(edges)[1]
             v == Head(edges)[2]
             first == IF u \in seen THEN <<>> ELSE <<u>>
             second == IF v \in seen \/ v = u THEN <<>> ELSE <<v>>
         IN  first \o second \o NodeOrder(Tail(edges), seen \cup {u, v})

\* G = nx.DiGraph(); G.add_edge(source_id, target_id, weight=..., id=...) for each
\* relationship: one edge per ordered pair, the attributes of the last one added
DiGraph(rels) ==
    LET edge_order == EdgeOrder(rels)
        E == Range(edge_order)
        LastOf(e) == CHOOSE k \in 1..Len(rels) :
                        /\ Edge(rels[k]) = e
                        /\ \A j \in (k + 1)..Len(rels) : Edge(rels[j]) # e
    IN  [nodes |-> {e[1] : e \in E} \cup {e[2] : e \in E},
         node_order |-> NodeOrder(edge_order, {}),
         edges |-> E,
         edge_order |-> edge_order,
         weight |-> [e \in E |-> rels[LastOf(e)].weight],
         id |-> [e \in E |-> rels[LastOf(e)].id]]

successors(G, n) == {m \in G.nodes : <<n, m>> \in G.edges}
predecessors(G, n) == {m \in G.nodes : <<m, n>> \in G.edges}

\* nx.all_simple_paths(G, source, target): the simple paths that extend path
RECURSIVE SimplePathsFrom(_, _, _)
SimplePathsFrom(G, path, target) ==
    IF path[Len(path)] = target THEN {path}
    ELSE UNION {SimplePathsFrom(G, Append(path, n), target) :
                   n \in successors(G, path[Len(path)]) \ Range(path)}

\* no path is generated when source = target
all_simple_paths(G, source, target) ==
    IF source = target THEN {} ELSE SimplePathsFrom(G, <<source>>, target)

\* Exact products of weights: natural numbers as digit sequences in base
\* WeightScale, least significant digit first
RECURSIVE BigTimes(_, _, _)
BigTimes(digits, m, carry) ==
    IF digits = <<>> THEN (IF carry = 0 THEN <<>> ELSE <<carry>>)
    ELSE LET v == Head(digits) * m + carry
         IN  <<v % WeightScale>> \o BigTimes(Tail(digits), m, v \div WeightScale)

RECURSIVE BigStrip(_)
BigStrip(d) ==
    IF d # <<>> /\ d[Len(d)] = 0 THEN BigStrip(SubSeq(d, 1, Len(d) - 1)) ELSE d

RECURSIVE BigGreaterFrom(_, _, _)
BigGreaterFrom(x, y, k) ==
    IF k = 0 THEN FALSE
    ELSE IF x[k] # y[k] THEN x[k] > y[k]
    ELSE BigGreaterFrom(x, y, k - 1)

BigGreater(a, b) ==
    LET x == BigStrip(a)
        y == BigStrip(b)
    IN  IF Len(x) # Len(y) THEN Len(x) > Len(y) ELSE BigGreaterFrom(x, y, Len(x))

\* np.prod of the weights along path, from edge k on: the numerator over
\* WeightScale^(number of edges)
RECURSIVE PathProduct(_, _, _)
PathProduct(G, path, k) ==
    IF k >= Len(path) THEN <<1>>
    ELSE BigTimes(PathProduct(G, path, k + 1), G.weight[<<path[k], path[k + 1]>>], 0)

\* path_strength > direct_edge['weight'], exactly
PathStronger(G, path, weight) ==
    BigGreater(PathProduct(G, path, 1),
               [k \in 1..(Len(path) - 2) |-> 0] \o BigTimes(<<1>>, weight, 0))

\* redundant_edges without the comparison of strengths: every edge with an
\* alternative path
redundant_edges_AnyAlternative(relationships) ==
    LET G == DiGraph(relationships)
    IN  {G.id[e] : e \in {d \in G.edges :
            Cardinality(all_simple_paths(G, d[1], d[2])) > 1}}

\* redundant_edges of remove_redundant_relationships: the ids of the edges of the
\* batch's graph that have more than one simple path from source to target, one
\* of them stronger than the edge
redundant_edges(relationships) ==
    LET G == DiGraph(relationships)
    IN  {G.id[e] : e \in {d \in G.edges :
            LET paths == all_simple_paths(G, d[1], d[2])
            IN  /\ Cardinality(paths) > 1
                /\ \E path \in paths : PathStronger(G, path, G.weight[d])}}

\* The persistence collaborator (self._db_conn) as one call of optimize uses it:
\* the store, the number of queries issued so far, the number of the query
\* that fails (0: none fails), and whether a query has failed, so that its
\* exception is on its way out of optimize; and how far the call has come: the
\* number of batches it has entered and whether it has entered rebalancing
Connection(st, fail_at) ==
    [store |-> st, queries |-> 0, fail_at |-> fail_at, failed |-> FALSE,
     batches |-> 0, rebalancing |-> FALSE]

\* execute_async_query: the query is counted; the failing one raises and
\* writes nothing, any other one leaves the store as written
execute_async_query(db, written) ==
    IF db.queries + 1 = db.fail_at
    THEN [db EXCEPT !.queries = @ + 1, !.failed = TRUE]
    ELSE [db EXCEPT !.queries = @ + 1, !.store = written]

\* remove_redundant_relationships: DELETE r WHERE r.id IN $redundant_ids, when
\* there is a redundant edge
remove_redundant_relationships(db, relationships) ==
    LET redundant_ids == redundant_edges(relationships)
    IN  IF redundant_ids = {} THEN db
        ELSE execute_async_query(db,
                 [db.store EXCEPT !.rels = [i \in (DOMAIN @) \ redundant_ids |-> @[i]]])

RECURSIVE SumOver(_, _)
SumOver(f, S) ==
    IF S = {} THEN 0
    ELSE LET x == CHOOSE y \in S : TRUE
         IN  f[x] + SumOver(f, S \ {x})

\* One step of the power iteration of nx.pagerank(G, weight='weight'); ranks are
\* in 1/WeightScale
PageRankStep(G, x) ==
    LET N == Cardinality(G.nodes)
        out_weight == [u \in G.nodes |->
                          SumOver([v \in successors(G, u) |-> G.weight[<<u, v>>]],
                                  successors(G, u))]
        dangling == {u \in G.nodes : out_weight[u] = 0}
        dangling_sum == SumOver(x, dangling)
        Inflow(v) ==
            LET from == {u \in predecessors(G, v) : out_weight[u] > 0}
            IN  SumOver([u \in from |-> (x[u] * G.weight[<<u, v>>]) \div out_weight[u]], from)
    IN  [v \in G.nodes |->
            (PAGERANK_ALPHA * (Inflow(v) + dangling_sum \div N)
               + (100 - PAGERANK_ALPHA) * (WeightScale \div N)) \div 100]

\* One pass of the power iteration loop: the new vector, and whether the total
\* change is at most one unit of the fixed point per node (err < N * tol)
PageRankPass(G, st) ==
    LET next == PageRankStep(G, st.x) @@ <<>>    \* the new vector, computed once
        err == SumOver([v \in G.nodes |->
                          IF next[v] >= st.x[v] THEN next[v] - st.x[v]
                          ELSE st.x[v] - next[v]],
                       G.nodes)
    IN  [x |-> next, converged |-> err <= Cardinality(G.nodes)]

\* At most iterations passes of the loop, ended by convergence
RECURSIVE PageRankIterate(_, _, _)
PageRankIterate(G, st, iterations) ==
    IF st.converged \/ iterations = 0 THEN st
    ELSE IF iterations = 1 THEN PageRankPass(G, st)
    ELSE PageRankIterate(G, PageRankIterate(G, st, iterations \div 2),
                         iterations - iterations \div 2)

pagerank(G) ==
    PageRankIterate(G, [x |-> [v \in G.nodes |-> WeightScale \div Cardinality(G.nodes)],
                        converged |-> FALSE],
                    PAGERANK_MAX_ITER).x

\* new_weight = np.clip((source_importance + target_importance) / 2 * rel.weight,
\*                      MIN_RELATIONSHIP_WEIGHT, MAX_RELATIONSHIP_WEIGHT)
new_weight(pagerank_scores, rel) ==
    Max(MIN_RELATIONSHIP_WEIGHT,
        Min(MAX_RELATIONSHIP_WEIGHT,
            ((pagerank_scores[rel.source_id] + pagerank_scores[rel.target_id]) * rel.weight)
                \div (2 * WeightScale)))

\* optimize_weights: SET r.weight for every relationship of the batch that is
\* still stored; the weight is computed from the batch as it was read.  The
\* pass is not reached when the pass before it raised.
optimize_weights(db, relationships) ==
    LET G == DiGraph(relationships)
        pagerank_scores == pagerank(G)
        Update(i) == CHOOSE k \in 1..Len(relationships) :
                        /\ relationships[k].id = i
                        /\ \A j \in (k + 1)..Len(relationships) : relationships[j].id # i
        updated == {relationships[k].id : k \in 1..Len(relationships)}
    IN  IF db.failed \/ relationships = <<>> THEN db
        ELSE execute_async_query(db,
                 [db.store EXCEPT !.rels =
                     [i \in DOMAIN @ |->
                         IF i \in updated
                         THEN [@[i] EXCEPT !.weight =
                                   new_weight(pagerank_scores, relationships[Update(i)])]
                         ELSE @[i]]])

\* nx.clustering(G) of a directed graph, for node i: the number of directed
\* triangles through i, its total degree and its number of reciprocated
\* neighbours (self-loops left out)
ClusteringCounts(G, i) ==
    LET ipreds == predecessors(G, i) \ {i}
        isuccs == successors(G, i) \ {i}
        Triangles(j) ==
            LET jpreds == predecessors(G, j) \ {j}
                jsuccs == successors(G, j) \ {j}
            IN  Cardinality(ipreds \cap jpreds) + Cardinality(ipreds \cap jsuccs)
                  + Cardinality(isuccs \cap jpreds) + Cardinality(isuccs \cap jsuccs)
    IN  [t |-> SumOver([j \in ipreds |-> Triangles(j)], ipreds)
                 + SumOver([j \in isuccs |-> Triangles(j)], isuccs),
         dt |-> Cardinality(ipreds) + Cardinality(isuccs),
         db |-> Cardinality(ipreds \cap isuccs)]

\* the coefficient t / ((dt * (dt - 1) - 2 * db) * 2), or 0 when t = 0, in 1/WeightScale
clustering(G, i) ==
    LET c == ClusteringCounts(G, i)
    IN  IF c.t = 0 THEN 0
        ELSE (c.t * WeightScale) \div ((c.dt * (c.dt - 1) - 2 * c.db) * 2)

\* coeff < min_clustering, decided exactly
NeedsRebalancing(G, i) ==
    LET c == ClusteringCounts(G, i)
    IN  c.t = 0 \/ 10 * c.t < MIN_CLUSTERING * ((c.dt * (c.dt - 1) - 2 * c.db) * 2)

RECURSIVE Flatten(_)
Flatten(seqs) == IF seqs = <<>> THEN <<>> ELSE Head(seqs) \o Flatten(Tail(seqs))

\* The creations of rebalance_structure without the test of the weight
RebalanceCreations_AnyWeight(G) ==
    LET Rebalance(n) == NeedsRebalancing(G, n)
        rebalance_nodes == SelectSeq(G.node_order, Rebalance)
        Into(n) == LET In(e) == e[2] = n IN SelectSeq(G.edge_order, In)
        OutOf(n) == LET Out(e) == e[1] = n IN SelectSeq(G.edge_order, Out)
        ForPred(n, pe) ==
            LET Beneficial(se) == <<pe[1], se[2]>> \notin G.edges
                chosen == SelectSeq(OutOf(n), Beneficial)
            IN  [k \in 1..Len(chosen) |->
                    [source_id |-> pe[1], target_id |-> chosen[k][2],
                     weight |-> Min(G.weight[pe], G.weight[chosen[k]])]]
        ForNode(n) == Flatten([k \in 1..Len(Into(n)) |-> ForPred(n, Into(n)[k])])
    IN  Flatten([k \in 1..Len(rebalance_nodes) |-> ForNode(rebalance_nodes[k])])

\* The relationships rebalance_structure creates, in the order of its loops: for
\* each node to rebalance, each predecessor and each successor that G does not
\* join directly, when min of the two weights is above MIN_RELATIONSHIP_WEIGHT.
\* G is not changed by the loops, so a pair can be created more than once.
RebalanceCreations(G) ==
    LET Rebalance(n) == NeedsRebalancing(G, n)
        rebalance_nodes == SelectSeq(G.node_order, Rebalance)
        Into(n) == LET In(e) == e[2] = n IN SelectSeq(G.edge_order, In)
        OutOf(n) == LET Out(e) == e[1] = n IN SelectSeq(G.edge_order, Out)
        ForPred(n, pe) ==
            LET Beneficial(se) ==
                    /\ <<pe[1], se[2]>> \notin G.edges
                    /\ Min(G.weight[pe], G.weight[se]) > MIN_RELATIONSHIP_WEIGHT
                chosen == SelectSeq(OutOf(n), Beneficial)
            IN  [k \in 1..Len(chosen) |->
                    [source_id |-> pe[1], target_id |-> chosen[k][2],
                     weight |-> Min(G.weight[pe], G.weight[chosen[k]])]]
        ForNode(n) == Flatten([k \in 1..Len(Into(n)) |-> ForPred(n, Into(n)[k])])
    IN  Flatten([k \in 1..Len(rebalance_nodes) |-> ForNode(rebalance_nodes[k])])

\* The queries of rebalance_structure for the list creations: one CREATE between
\* two MATCHed nodes for each, with a fresh id and type IS_RELATED, in order up
\* to the query that fails
RebalanceWrite(db, fresh, creations) ==
    LET before_failure == db.fail_at - db.queries
        fails == 0 < before_failure /\ before_failure <= Len(creations)
        issued == IF fails THEN before_failure ELSE Len(creations)
        done == IF fails THEN issued - 1 ELSE issued
        Persisted(k) == /\ creations[k].source_id \in db.store.nodes
                        /\ creations[k].target_id \in db.store.nodes
        new_rels == [i \in {fresh + k - 1 : k \in {j \in 1..done : Persisted(j)}} |->
                        [id |-> i, type |-> "IS_RELATED",
                         source_id |-> creations[i - fresh + 1].source_id,
                         target_id |-> creations[i - fresh + 1].target_id,
                         weight |-> creations[i - fresh + 1].weight,
                         similarity_score |-> Absent, version |-> Absent]]
    IN  [db |-> [db EXCEPT !.store = [@ EXCEPT !.rels = new_rels @@ @],
                           !.queries = @ + issued,
                           !.failed = fails,
                           !.rebalancing = TRUE],
         next_id |-> fresh + issued]

\* rebalance_structure: graph.analyze() is called first; it is not defined in
\* the sources and its result is not used.  The relationships are read again
\* and the creations are written one by one.  Not reached when a batch raised.
rebalance_structure(db, fresh) ==
    IF db.failed THEN [db |-> db, next_id |-> fresh]
    ELSE RebalanceWrite(db, fresh, RebalanceCreations(DiGraph(get_relationships(db.store))))

\* Shortest path lengths from the nodes of frontier (at distance d) on
RECURSIVE DistancesFrom(_, _, _, _)
DistancesFrom(G, frontier, seen, d) ==
    IF frontier = {} THEN <<>>
    ELSE LET next == (UNION {successors(G, n) : n \in frontier}) \ seen
         IN  [n \in frontier |-> d] @@ DistancesFrom(G, next, seen \cup next, d + 1)

shortest_path_length(G, u) == DistancesFrom(G, {u}, {u}, 0)

is_strongly_connected(G) ==
    \A u \in G.nodes : DOMAIN shortest_path_length(G, u) = G.nodes

\* calculate_metrics raises on a graph without nodes (average_clustering divides
\* by the node count) and on a graph that is not strongly connected (nx.diameter
\* finds an infinite path length)
MetricsDefined(G) == G.nodes # {} /\ is_strongly_connected(G)

\* The metrics dictionary of calculate_metrics; the ratios in 1/WeightScale
GraphMetrics(G) ==
    LET n == Cardinality(G.nodes)
        m == Cardinality(G.edges)
        dist == [u \in G.nodes |-> shortest_path_length(G, u)]
        total_length == SumOver([u \in G.nodes |-> SumOver(dist[u], G.nodes)], G.nodes)
        degree_sum == 2 * m
    IN  [node_count |-> n,
         edge_count |-> m,
         density |-> IF m = 0 \/ n <= 1 THEN 0 ELSE (m * WeightScale) \div (n * (n - 1)),
         average_clustering |->
             SumOver([u \in G.nodes |-> clustering(G, u)], G.nodes) \div n,
         average_shortest_path |->
             IF n = 1 THEN 0 ELSE (total_length * WeightScale) \div (n * (n - 1)),
         diameter |->
             CHOOSE d \in 0..n : /\ \E u, v \in G.nodes : dist[u][v] = d
                                 /\ \A u, v \in G.nodes : dist[u][v] <= d,
         average_degree |-> (degree_sum * WeightScale) \div n,
         strongly_connected_components |-> 1]

\* calculate_metrics(graph): the cached dictionary when the cache has the key,
\* else the metrics of the stored relationships, which are then cached
calculate_metrics(st, metrics_cache, cache_key, t) ==
    IF cache_key \in DOMAIN metrics_cache
    THEN [ok |-> TRUE, metrics |-> metrics_cache[cache_key].metrics,
          metrics_cache |-> metrics_cache]
    ELSE LET G == DiGraph(get_relationships(st))
         IN  IF MetricsDefined(G)
             THEN [ok |-> TRUE, metrics |-> GraphMetrics(G),
                   metrics_cache |-> (cache_key :> [metrics |-> GraphMetrics(G), cached_at |-> t])
                                        @@ metrics_cache]
             ELSE [ok |-> FALSE, metrics |-> <<>>, metrics_cache |-> metrics_cache]

\* The batch loop going on with the next batch after a pass has raised
RECURSIVE OptimizeBatches_ContinuesAfterFailure(_, _, _)
OptimizeBatches_ContinuesAfterFailure(db, relationships, i) ==
    IF i > Len(relationships) THEN db
    ELSE LET batch == SubSeq(relationships, i,
                             Min(i + OPTIMIZATION_BATCH_SIZE - 1, Len(relationships)))
         IN  OptimizeBatches_ContinuesAfterFailure(
                 optimize_weights(
                     remove_redundant_relationships([db EXCEPT !.batches = @ + 1], batch),
                     batch),
                 relationships, i + OPTIMIZATION_BATCH_SIZE)

\* The batch loop of optimize (lines 118-125) from position i of the list that
\* was read once before the loop; the exception of a pass ends it
RECURSIVE OptimizeBatches(_, _, _)
OptimizeBatches(db, relationships, i) ==
    IF db.failed \/ i > Len(relationships) THEN db
    ELSE LET batch == SubSeq(relationships, i,
                             Min(i + OPTIMIZATION_BATCH_SIZE - 1, Len(relationships)))
         IN  OptimizeBatches(
                 optimize_weights(
                     remove_redundant_relationships([db EXCEPT !.batches = @ + 1], batch),
                     batch),
                 relationships, i + OPTIMIZATION_BATCH_SIZE)

\* The end of optimize: graph.metadata.update(...), the log line and the
\* return of the graph.  metadata is the dictionary given to update.
OptimizeReturn(initial, rebalanced, final, t) ==
    [status |-> "returned", store |-> rebalanced.db.store,
     metrics_cache |-> final.metrics_cache, next_id |-> rebalanced.next_id,
     initial_metrics |-> initial.metrics, final_metrics |-> final.metrics,
     queries |-> rebalanced.db.queries, batches |-> rebalanced.db.batches,
     rebalancing |-> rebalanced.db.rebalancing,
     metadata |-> [last_optimized |-> t,
                   optimization_metrics |-> [initial |-> initial.metrics,
                                             final |-> final.metrics]]]

\* optimize after rebalance_structure: the exception of a pass leaves optimize
\* through the except clause, which logs and re-raises; else the final
\* calculate_metrics follows
OptimizeFinish(initial, rebalanced, graph_id, t) ==
    IF rebalanced.db.failed
    THEN [status |-> "raised", store |-> rebalanced.db.store,
          metrics_cache |-> initial.metrics_cache, next_id |-> rebalanced.next_id,
          initial_metrics |-> initial.metrics, final_metrics |-> <<>>,
          queries |-> rebalanced.db.queries, batches |-> rebalanced.db.batches,
          rebalancing |-> rebalanced.db.rebalancing, metadata |-> <<>>]
    ELSE OptimizeReturn(initial, rebalanced,
             calculate_metrics(rebalanced.db.store, initial.metrics_cache, graph_id, t), t)

\* optimize after the initial calculate_metrics, whose exception leaves optimize
\* before anything is read or written
OptimizeRun(st, metrics_cache, graph_id, fresh, t, fail_at, initial) ==
    IF ~initial.ok
    THEN [status |-> "raised", store |-> st, metrics_cache |-> metrics_cache,
          next_id |-> fresh, initial_metrics |-> <<>>, final_metrics |-> <<>>,
          queries |-> 0, batches |-> 0, rebalancing |-> FALSE, metadata |-> <<>>]
    ELSE OptimizeFinish(initial,
             rebalance_structure(
                 OptimizeBatches(Connection(st, fail_at), get_relationships(st), 1), fresh),
             graph_id, t)

\* The body of optimize(graph), run to its end at time t; fail_at is the query
\* of this call that the persistence collaborator fails (0: none)
optimize(st, metrics_cache, graph_id, fresh, t, fail_at) ==
    OptimizeRun(st, metrics_cache, graph_id, fresh, t, fail_at,
                calculate_metrics(st, metrics_cache, graph_id, t))

(***************************************************************************)
(* The circuit breaker that decorates optimize.  The decorator object is   *)
(* built with failure_threshold only, so its recovery timeout is the       *)
(* library's default of 30 s (CIRCUIT_BREAKER_TIMEOUT is given to          *)
(* self._circuit_breaker, which no method uses).  The decorator belongs to *)
(* the method, so all calls of optimize share it.                          *)
(***************************************************************************)
CIRCUIT_BREAKER_THRESHOLD == 5
DEFAULT_RECOVERY_TIMEOUT == 30

ClosedBreaker == [state |-> "closed", failure_count |-> 0, opened |-> 0]

\* The decorator raises CircuitBreakerError without calling optimize while the
\* breaker is open and its recovery timeout has not passed
BreakerRejects(breaker, t) ==
    breaker.state = "open" /\ t < breaker.opened + DEFAULT_RECOVERY_TIMEOUT

\* The breaker after a call that was let through at time t: a success closes it
\* and resets the count, a failure is counted and opens it at the threshold
BreakerAfter(breaker, t, raised) ==
    IF ~raised THEN ClosedBreaker
    ELSE IF breaker.failure_count + 1 >= CIRCUIT_BREAKER_THRESHOLD
    THEN [state |-> "open", failure_count |-> breaker.failure_count + 1, opened |-> t]
    ELSE [breaker EXCEPT !.failure_count = @ + 1]

\* optimize(graph) as its callers reach it, through the decorator
decorated_optimize(breaker, st, metrics_cache, graph_id, fresh, t, fail_at) ==
    IF BreakerRejects(breaker, t)
    THEN [status |-> "rejected", store |-> st, metrics_cache |-> metrics_cache,
          next_id |-> fresh, initial_metrics |-> <<>>, final_metrics |-> <<>>,
          queries |-> 0, batches |-> 0, rebalancing |-> FALSE, metadata |-> <<>>]
    ELSE optimize(st, metrics_cache, graph_id, fresh, t, fail_at)

(***************************************************************************)
(* GraphBuilder (core/graph_builder.py)                                    *)
(***************************************************************************)
MIN_NODES_REQUIRED == 2
MAX_GRAPH_SIZE == 10000
MIN_CONNECTIONS_PER_NODE == 10
MAX_PARALLEL_TASKS == 5

\* An input node of build_graph: the node dict with the keys it has and the kind
\* of value under "vector" ("list", "tuple", or "scalar" for anything else)
BuildNode(i, fields, vector) ==
    [id |-> i, level |-> 0, scope |-> <<>>, type |-> "none", references |-> {},
     quality_score |-> 5000, fields |-> fields, vector |-> vector]

\* a node dict with id, content and a list vector
GoodNode(i) == BuildNode(i, {"id", "content", "vector"}, "list")

\* validate_nodes without the test for duplicate ids
validate_nodes_NoDuplicateTest(nodes) ==
    /\ Len(nodes) >= MIN_NODES_REQUIRED
    /\ Len(nodes) <= MAX_GRAPH_SIZE
    /\ \A k \in 1..Len(nodes) :
          /\ {"id", "content", "vector"} \subseteq nodes[k].fields
          /\ nodes[k].vector \in {"list", "tuple"}

\* validate_nodes: the count tests come first, then every node is tested for its
\* required fields, for an id seen before, and for the type of its vector
validate_nodes(nodes) ==
    /\ Len(nodes) >= MIN_NODES_REQUIRED
    /\ Len(nodes) <= MAX_GRAPH_SIZE
    /\ \A k \in 1..Len(nodes) :
          /\ {"id", "content", "vector"} \subseteq nodes[k].fields
          /\ \A j \in 1..(k - 1) : nodes[j].id # nodes[k].id
          /\ nodes[k].vector \in {"list", "tuple"}

\* G.degree(node): in-degree plus out-degree
degree(G, n) == Cardinality(successors(G, n)) + Cardinality(predecessors(G, n))

\* validate_graph_complexity(graph): G has the end nodes of graph.relationships
\* only.  nx.is_strongly_connected raises on a graph without nodes, which the
\* method catches and answers False.
validate_graph_complexity(g) ==
    LET G == DiGraph(g.relationships)
    IN  /\ \A n \in G.nodes : degree(G, n) >= MIN_CONNECTIONS_PER_NODE
        /\ G.nodes # {}
        /\ is_strongly_connected(G)
        /\ SumOver([n \in G.nodes |-> degree(G, n)], G.nodes)
               >= MIN_CONNECTIONS_PER_NODE * Cardinality(G.nodes)

\* await asyncio.gather(*node_tasks) returning before every task is done
GatherDone_AnyTask(in_flight) == TRUE

\* await asyncio.gather(*node_tasks) returning while one task is still running
GatherDone_OneLeft(in_flight) == Cardinality(in_flight) <= 1

\* await asyncio.gather(*node_tasks) returns when no task of the batch is left
GatherDone(in_flight) == in_flight = {}

IdleBuilder ==
    [pc |-> "idle", nodes |-> <<>>, batch_size |-> 0, next |-> 1, in_flight |-> {},
     relationships |-> <<>>, error |-> "none", builds |-> 0,
     store_before |-> EmptyStore, extractions_before |-> 0, optimizations_before |-> 0,
     extraction_started |-> FALSE, nodes_at_extract |-> 0, in_flight_at_extract |-> 0,
     optimize_started |-> FALSE, extraction_returned |-> FALSE,
     relationships_at_optimize |-> 0, optimize_returned |-> FALSE,
     validated |-> FALSE, complexity |-> "unknown"]

IdleOptimizer ==
    [metrics_cache |-> <<>>, pc |-> "idle", graph_id |-> 0, relationships |-> <<>>,
     next |-> 1, initial_metrics |-> <<>>, runs |-> <<>>, store_before |-> EmptyStore,
     calls |-> 0, breaker |-> ClosedBreaker]

\* The state a call of optimize(graph) at time now leaves, out being its
\* outcome: the store, the id source, the metadata of the Graph object, the
\* optimizer's cache and the decorator's breaker; runs is the new call history
OptimizerCalled(out, runs) ==
    /\ store' = out.store
    /\ next_id' = out.next_id
    /\ graph' = [graph EXCEPT !.metadata = out.metadata @@ @]
    /\ optimizer' = [optimizer EXCEPT
                        !.metrics_cache = out.metrics_cache,
                        !.calls = @ + 1,
                        !.breaker = IF out.status = "rejected" THEN @
                                    ELSE BreakerAfter(@, now, out.status = "raised"),
                        !.runs = runs]

\* The entry of the call history for a call with outcome out, in which the
\* persistence collaborator was to fail query fail_at
RunRecord(out, fail_at) ==
    [status |-> out.status, at |-> now, queries |-> out.queries, fail_at |-> fail_at,
     batches |-> out.batches, rebalancing |-> out.rebalancing,
     store_before |-> store, store_after |-> out.store,
     next_id_before |-> next_id, next_id_after |-> out.next_id,
     metadata_before |-> graph.metadata,
     cached |-> graph.id \in DOMAIN optimizer.metrics_cache,
     initial_metrics |-> out.initial_metrics,
     final_metrics |-> out.final_metrics]

InitOthers ==
    /\ store = EmptyStore
    /\ graph = NoGraph
    /\ builder = IdleBuilder
    /\ optimizer = IdleOptimizer
    /\ holders = <<>>

(***************************************************************************)
(* Specification SpecExtract: callers of one RelationshipExtractor         *)
(***************************************************************************)
TripleInputs ==
    {<<Plain(1), Plain(2), Plain(3)>>,
     <<Intro(2), Advanced(3), Other(1)>>,
     <<Advanced(3), Intro(2), Plain(1)>>}

\* two nodes that differ in level only, in either order
LevelInputs ==
    {<<Level(1, 1), Level(2, 2)>>, <<Level(2, 2), Level(1, 1)>>}

ExtractInputs == SeqsUpTo(NodeUniverse, MaxNodes) \cup TripleInputs \cup LevelInputs

\* batch_size arguments: 0 stands for None (the default applies); a batch size
\* below the default is tried on the lists it splits
BatchSizes(nodes) == IF Len(nodes) > 2 THEN {0, 2} ELSE {0}

\* Answers of the similarity collaborator; fewer values on the longer lists
Answers(nodes) == (IF Len(nodes) > 2 THEN {65, 95} ELSE Scores) \cup {SimFail}

NoResult ==
    [status |-> "none", relationships |-> <<>>, requested |-> {}, first_id |-> 1,
     found |-> 0]

\* A new RelationshipExtractor, before its first call
InitExtractor ==
    /\ now = 0
    /\ ex_nodes = <<>>
    /\ ex_batch_size = 0
    /\ ex_sims = <<>>
    /\ ex_result = NoResult
    /\ ex_calls = 0
    /\ relationship_cache = <<>>
    /\ next_id = 1

InitExtract ==
    /\ InitExtractor
    /\ InitOthers

\* The extractor's state after a call of extract_relationships(nodes, batch_size)
\* with outcome out; sims are the answers the similarity collaborator gave
ExtractorCalled(nodes, batch_size, sims, out) ==
    /\ ex_calls' = ex_calls + 1
    /\ ex_nodes' = nodes
    /\ ex_batch_size' = batch_size
    /\ ex_sims' = sims
    /\ ex_result' = [status |-> out.status, relationships |-> out.relationships,
                     requested |-> out.requested, first_id |-> next_id,
                     found |-> out.found]
    /\ relationship_cache' = out.cache
    /\ next_id' = out.next_id

\* One call of extract_relationships(nodes, batch_size) by a client
ExtractCall(nodes, batch_size, sims) ==
    /\ ExtractorCalled(nodes, batch_size, sims,
           extract_relationships(nodes, batch_size, sims, relationship_cache, next_id, now))
    /\ UNCHANGED <<now, others>>

Extract ==
    /\ ex_calls < MaxCalls
    /\ \E nodes \in ExtractInputs :
        \E batch_size \in BatchSizes(nodes) :
            \E sims \in [Range(AllNodePairs(1, Len(nodes),
                                    EffectiveBatchSize(batch_size, Len(nodes))))
                            -> Answers(nodes)] :
                ExtractCall(nodes, batch_size, sims)

\* Time passes (before the first call the cache is empty and time has no effect)
Tick ==
    /\ ex_calls > 0
    /\ now < MaxTicks * TickSeconds
    /\ now' = now + TickSeconds
    /\ UNCHANGED <<ex_nodes, ex_batch_size, ex_sims, ex_result, ex_calls,
                   relationship_cache, next_id, others>>

NextExtract == Extract \/ Tick

SpecExtract == InitExtract /\ [][NextExtract]_vars

(***************************************************************************)
(* Claims about extract_relationships (SpecExtract)                        *)
(***************************************************************************)
Returned == ex_result.status = "returned"
ReturnedRels == Range(ex_result.relationships)
\* the pairs the last call compared, and the ids of a pair
ComparedPairs ==
    Range(AllNodePairs(1, Len(ex_nodes), EffectiveBatchSize(ex_batch_size, Len(ex_nodes))))
PairIds(p) == <<ex_nodes[p[1]].id, ex_nodes[p[2]].id>>
\* a relationship of the result that the last call took from the cache
FromCache(r) == r.id < ex_result.first_id

\* C4: every relationship extract_relationships returns, computed or cached, has
\* a weight in [0, 1], one of the five types and a similarity score of at least
\* 0.7; an id pair all of whose comparisons were answered below 0.7 yields none.
C4_ReturnedRelationshipsWellFormed ==
    Returned =>
        /\ \A r \in ReturnedRels :
              /\ 0 <= r.weight /\ r.weight <= WeightScale
              /\ r.type \in {"IS_PREREQUISITE", "IS_RELATED", "CONTAINS",
                              "REFERENCES", "EXTENDS"}
              /\ r.similarity_score >= 70
        /\ \A p \in ComparedPairs :
              (\A q \in ComparedPairs :
                  PairIds(q) = PairIds(p) =>
                      q \in ex_result.requested /\ ex_sims[q] < 70)
              => ~\E r \in ReturnedRels :
                      <<r.source_id, r.target_id>> = PairIds(p)

\* C4 witness: a call returned a computed relationship and a cached one, after a
\* comparison that was answered below 0.7
C4_Witness ==
    /\ Returned
    /\ \E r \in ReturnedRels : FromCache(r)
    /\ \E r \in ReturnedRels : ~FromCache(r)
    /\ \E p \in ex_result.requested : ex_sims[p] < 70

\* C6: every relationship extract_relationships returns has source_id # target_id
C6_NoSelfRelationship ==
    Returned => \A r \in ReturnedRels : r.source_id # r.target_id

(***************************************************************************)
(* Specification SpecFanout: extract_relationships on lists long enough    *)
(* for a node to meet MAX_RELATIONSHIPS_PER_NODE.  extract_relationships   *)
(* accepts lists that repeat an id; such a list gives one id many          *)
(* relationships with few nodes.  One list of distinct ids is long enough  *)
(* for every node to exceed the limit.  A second call extracts the same    *)
(* list again, so that it is served from the cache.                        *)
(***************************************************************************)
\* n nodes whose ids cycle through 1..m
CyclicList(n, m) == [k \in 1..n |-> Plain(1 + (k % m))]

FanoutInputs ==
    {CyclicList(n, m) : n \in 0..MaxFanoutNodes, m \in 1..3}
        \cup {CyclicList(MAX_RELATIONSHIPS_PER_NODE + 2, MAX_RELATIONSHIPS_PER_NODE + 2)}

\* Similarity answers that depend on the position of the source node only
FanoutAnswers(nodes, size) ==
    {[p \in Range(AllNodePairs(1, Len(nodes), size)) |-> IF p[1] % 2 = 1 THEN a ELSE b] :
        a \in {65, 70, 95}, b \in {65, 70, 95}}

FanoutExtract ==
    /\ ex_calls < MaxCalls
    /\ \E nodes \in FanoutInputs :
        /\ ex_calls > 0 => nodes = ex_nodes /\ Len(nodes) <= MaxFanoutNodes
        /\ \E batch_size \in (IF Len(nodes) > MaxFanoutNodes THEN {0} ELSE {0, 5}) :
            \E sims \in FanoutAnswers(nodes, EffectiveBatchSize(batch_size, Len(nodes))) :
                ExtractCall(nodes, batch_size, sims)

NextFanout == FanoutExtract

SpecFanout == InitExtract /\ [][NextFanout]_vars

\* C5: in the list extract_relationships returns, no node id is an endpoint of
\* more than 20 relationships (all batches and the cached ones together)
C5_FanOutCap ==
    Returned =>
        \A i \in {ex_nodes[k].id : k \in 1..Len(ex_nodes)} :
            Cardinality({k \in 1..Len(ex_result.relationships) :
                            \/ ex_result.relationships[k].source_id = i
                            \/ ex_result.relationships[k].target_id = i}) <= 20

\* C5 witness: a call found more relationships than it returned, the returned
\* list has one from the cache, and some node is an endpoint of exactly 20
C5_Witness ==
    /\ Returned
    /\ ex_result.found > Len(ex_result.relationships)
    /\ \E r \in ReturnedRels : FromCache(r)
    /\ \E i \in {ex_nodes[k].id : k \in 1..Len(ex_nodes)} :
            Cardinality({k \in 1..Len(ex_result.relationships) :
                            \/ ex_result.relationships[k].source_id = i
                            \/ ex_result.relationships[k].target_id = i}) = 20

(***************************************************************************)
(* Specification SpecVersion: two clients hold Relationship objects of the *)
(* same relationship (the same id, between two persisted nodes) and save   *)
(* and update it.                                                          *)
(***************************************************************************)
MaxVersion == 3        \* updates stop when an object has this version

Holders == {"A", "B"}
HeldWeights == {3000, 6000}
NoObject == [id |-> 0]
NoWrite == [op |-> "none"]

InitVersion ==
    /\ InitExtractor
    /\ store = [nodes |-> {1, 2}, rels |-> <<>>]
    /\ graph = NoGraph
    /\ builder = IdleBuilder
    /\ optimizer = IdleOptimizer
    /\ holders = [objects |-> [h \in Holders |-> NoObject], last |-> NoWrite]

\* the stored properties of relationship i, or NoObject
Stored(st, i) == IF i \in DOMAIN st.rels THEN st.rels[i] ELSE NoObject

\* A client constructs the Relationship object: Relationship(type, source_id,
\* target_id, weight, id=...); version has its default, 1
HolderConstruct(h, w) ==
    /\ holders.objects[h] = NoObject
    /\ holders' = [holders EXCEPT
                      !.objects[h] = Relationship(1, "IS_RELATED", 1, 2, w, 70)]
    /\ UNCHANGED <<now, ex_nodes, ex_batch_size, ex_sims, ex_result, ex_calls,
                   relationship_cache, next_id, store, graph, builder, optimizer>>

\* A client constructs the Relationship object from the stored properties
HolderLoad(h) ==
    /\ 1 \in DOMAIN store.rels
    /\ holders.objects[h] # store.rels[1]
    /\ holders' = [holders EXCEPT !.objects[h] = store.rels[1]]
    /\ UNCHANGED <<now, ex_nodes, ex_batch_size, ex_sims, ex_result, ex_calls,
                   relationship_cache, next_id, store, graph, builder, optimizer>>

\* A client calls async_save() on its object
HolderSave(h) ==
    /\ holders.objects[h] # NoObject
    /\ store' = async_save(store, holders.objects[h])
    /\ holders' = [holders EXCEPT
                      !.last = [op |-> "save", holder |-> h, ok |-> TRUE,
                                stored_before |-> Stored(store, holders.objects[h].id),
                                object_before |-> holders.objects[h]]]
    /\ UNCHANGED <<now, ex_nodes, ex_batch_size, ex_sims, ex_result, ex_calls,
                   relationship_cache, next_id, graph, builder, optimizer>>

\* A client calls async_update({"weight": w}) on its object
HolderUpdate(h, w) ==
    /\ holders.objects[h] # NoObject
    /\ holders.objects[h].version < MaxVersion
    /\ LET out == async_update(store, holders.objects[h], [weight |-> w])
       IN  /\ store' = out.store
           /\ holders' = [holders EXCEPT
                             !.objects[h] = out.rel,
                             !.last = [op |-> "update", holder |-> h, ok |-> out.ok,
                                       stored_before |-> Stored(store, holders.objects[h].id),
                                       object_before |-> holders.objects[h]]]
    /\ UNCHANGED <<now, ex_nodes, ex_batch_size, ex_sims, ex_result, ex_calls,
                   relationship_cache, next_id, graph, builder, optimizer>>

NextVersion ==
    \E h \in Holders :
        \/ \E w \in HeldWeights : HolderConstruct(h, w)
        \/ HolderLoad(h)
        \/ HolderSave(h)
        \/ \E w \in HeldWeights : HolderUpdate(h, w)

SpecVersion == InitVersion /\ [][NextVersion]_vars

\* C8: a write to a persisted relationship from an object whose version is not
\* the stored version fails and changes neither the stored relationship nor the
\* object's version; a successful update raises the stored version by exactly
\* one; no write lowers the stored version.
C8_WritesRespectVersion ==
    LET w == holders.last
        after == Stored(store, w.object_before.id)
    IN  (w.op # "none" /\ w.stored_before # NoObject) =>
            /\ w.object_before.version # w.stored_before.version =>
                  /\ ~w.ok
                  /\ after = w.stored_before
                  /\ holders.objects[w.holder].version = w.object_before.version
            /\ (w.op = "update" /\ w.ok) =>
                  after.version = w.stored_before.version + 1
            /\ after.version >= w.stored_before.version

(***************************************************************************)
(* Specification SpecBuild: build_graph called up to MaxBuilds times, one  *)
(* call after the other, on one GraphBuilder (one extractor, one           *)
(* optimizer, one store).  The add_node tasks of a batch complete in any   *)
(* order.                                                                  *)
(***************************************************************************)
MaxBuilds == 2         \* build_graph calls in one behaviour
MaxBuildNodes == 6     \* longest accepted node list

\* node lists that pass validate_nodes: ids 1..n in order, and in reverse for the
\* short ones
GoodList(n) == [k \in 1..n |-> GoodNode(k)]
ReversedList(n) == [k \in 1..n |-> GoodNode(n + 1 - k)]

BuildInputs ==
    {GoodList(n) : n \in 0..MaxBuildNodes}
      \cup {ReversedList(2), ReversedList(3)}
      \cup {<<GoodNode(1), GoodNode(1)>>,
            <<GoodNode(1), GoodNode(2), GoodNode(1)>>,
            <<GoodNode(1), BuildNode(2, {"id", "content", "vector"}, "tuple")>>,
            <<GoodNode(1), BuildNode(2, {"id", "content", "vector"}, "scalar")>>,
            <<GoodNode(1), BuildNode(2, {"id", "vector"}, "list")>>,
            <<GoodNode(1), BuildNode(2, {"id", "content"}, "list")>>,
            <<BuildNode(1, {"content", "vector"}, "list"), GoodNode(2)>>,
            GoodList(MAX_GRAPH_SIZE + 1)}

\* the similarity collaborator gives every pair of a build the same answer
BuildAnswers(nodes) ==
    {[p \in Range(AllNodePairs(1, Len(nodes), Len(nodes))) |-> a] : a \in {65, 90, SimFail}}

\* build_graph(nodes, ...) is called: validate_nodes, and on success the Graph
\* object is made and the add_node tasks of the first batch are started
BuildStart(nodes) ==
    /\ builder.pc \in {"idle", "done", "failed"}
    /\ builder.builds < MaxBuilds
    /\ LET called == [IdleBuilder EXCEPT
                         !.nodes = nodes,
                         !.builds = builder.builds + 1,
                         !.store_before = store,
                         !.extractions_before = ex_calls,
                         !.optimizations_before = optimizer.calls]
           batch_size == Min(Len(nodes), MAX_PARALLEL_TASKS)
       IN  IF ~validate_nodes(nodes)
           THEN /\ builder' = [called EXCEPT !.pc = "failed", !.error = "validation"]
                /\ graph' = NoGraph
           ELSE /\ builder' = [called EXCEPT !.pc = "nodes", !.batch_size = batch_size,
                                             !.in_flight = 1..batch_size]
                /\ graph' = NewGraph(builder.builds + 1)
    /\ UNCHANGED <<now, ex_nodes, ex_batch_size, ex_sims, ex_result, ex_calls,
                   relationship_cache, next_id, store, optimizer, holders>>

\* The add_node task of position k completes.  When gather returns, the loop
\* starts the tasks of the next batch, or the build goes on to extraction.
NodeAdded(k) ==
    /\ k \in builder.in_flight
    /\ LET out == add_node(graph, store, builder.nodes[k])
           left == builder.in_flight \ {k}
           next == builder.next + builder.batch_size
           last == Min(next + builder.batch_size - 1, Len(builder.nodes))
       IN  /\ graph' = out.graph
           /\ store' = out.store
           /\ builder' =
                IF builder.pc = "nodes" /\ GatherDone(left)
                THEN IF next <= Len(builder.nodes)
                     THEN [builder EXCEPT !.in_flight = left \cup (next..last),
                                          !.next = next]
                     ELSE [builder EXCEPT !.in_flight = left, !.pc = "extract"]
                ELSE [builder EXCEPT !.in_flight = left]
    /\ UNCHANGED <<now, ex_nodes, ex_batch_size, ex_sims, ex_result, ex_calls,
                   relationship_cache, next_id, optimizer, holders>>

\* relationships = await extract_relationships(nodes): the default batch size
BuildExtract ==
    /\ builder.pc = "extract"
    /\ \E sims \in BuildAnswers(builder.nodes) :
       LET out == extract_relationships(builder.nodes, 0, sims, relationship_cache,
                                        next_id, now)
           started == [builder EXCEPT
                          !.extraction_started = TRUE,
                          !.nodes_at_extract = Len(graph.nodes),
                          !.in_flight_at_extract = Cardinality(builder.in_flight)]
       IN  /\ ExtractorCalled(builder.nodes, 0, sims, out)
           /\ builder' =
                IF out.status = "raised"
                THEN [started EXCEPT !.pc = "failed", !.error = "extraction"]
                ELSE [started EXCEPT
                         !.extraction_returned = TRUE,
                         !.relationships = out.relationships,
                         !.next = 1,
                         !.pc = IF out.relationships = <<>> THEN "optimize"
                                ELSE "relationships"]
    /\ UNCHANGED <<now, store, graph, optimizer, holders>>

\* One pass of the loop over relationship_batches
BuildAddRelationships ==
    /\ builder.pc = "relationships"
    /\ LET last == Min(builder.next + builder.batch_size - 1, Len(builder.relationships))
           out == add_relationships_batch(graph, store,
                      SubSeq(builder.relationships, builder.next, last))
       IN  /\ graph' = out.graph
           /\ store' = out.store
           /\ builder' =
                IF ~out.ok THEN [builder EXCEPT !.pc = "failed", !.error = "operation"]
                ELSE IF last < Len(builder.relationships)
                THEN [builder EXCEPT !.next = last + 1]
                ELSE [builder EXCEPT !.next = last + 1, !.pc = "optimize"]
    /\ UNCHANGED <<now, ex_nodes, ex_batch_size, ex_sims, ex_result, ex_calls,
                   relationship_cache, next_id, optimizer, holders>>

\* optimized_graph = await self._graph_optimizer.optimize(graph)
BuildOptimize ==
    /\ builder.pc = "optimize"
    /\ \E out \in {decorated_optimize(optimizer.breaker, store, optimizer.metrics_cache,
                                       graph.id, next_id, now, 0)} :
       LET started == [builder EXCEPT
                          !.optimize_started = TRUE,
                          !.relationships_at_optimize = Len(graph.relationships)]
       IN  /\ OptimizerCalled(out, optimizer.runs)
           /\ builder' =
                IF out.status = "returned"
                THEN [started EXCEPT !.optimize_returned = TRUE, !.pc = "validate"]
                ELSE [started EXCEPT !.pc = "failed", !.error = "optimization"]
    /\ UNCHANGED <<now, ex_nodes, ex_batch_size, ex_sims, ex_result, ex_calls,
                   relationship_cache, holders>>

\* validate_graph_complexity(optimized_graph), then the return of the graph or
\* GraphValidationError; the except clause logs and re-raises
BuildValidate ==
    /\ builder.pc = "validate"
    /\ builder' =
         IF validate_graph_complexity(graph)
         THEN [builder EXCEPT !.validated = TRUE, !.complexity = "passed", !.pc = "done"]
         ELSE [builder EXCEPT !.validated = TRUE, !.complexity = "failed",
                              !.pc = "failed", !.error = "complexity"]
    /\ UNCHANGED <<now, ex_nodes, ex_batch_size, ex_sims, ex_result, ex_calls,
                   relationship_cache, next_id, store, graph, optimizer, holders>>

NextBuild ==
    \/ \E nodes \in BuildInputs : BuildStart(nodes)
    \/ \E k \in 1..MaxBuildNodes : NodeAdded(k)
    \/ BuildExtract
    \/ BuildAddRelationships
    \/ BuildOptimize
    \/ BuildValidate

InitBuild == InitExtractor /\ InitOthers

SpecBuild == InitBuild /\ [][NextBuild]_vars

\* C2: when build_graph fails on the complexity check, nothing that build
\* inserted remains persisted: the store is as it was when the build was called.
C2_ComplexityFailureRollsBack ==
    (builder.pc = "failed" /\ builder.error = "complexity") => store = builder.store_before

\* C3: a build ends with a validation error exactly when its node list has
\* fewer than 2 or more than 10000 nodes, a node without id, content or vector,
\* a vector that is not array-shaped, or a repeated id; and then the store is
\* unchanged and neither the extractor nor the optimizer has been called by
\* that build.
C3_ValidationBeforeAnything ==
    LET nodes == builder.nodes
        rejected ==
            \/ Len(nodes) < 2
            \/ Len(nodes) > 10000
            \/ \E k \in 1..Len(nodes) :
                  \/ "id" \notin nodes[k].fields
                  \/ "content" \notin nodes[k].fields
                  \/ "vector" \notin nodes[k].fields
                  \/ nodes[k].vector \notin {"list", "tuple"}
            \/ \E j, k \in 1..Len(nodes) : j < k /\ nodes[j].id = nodes[k].id
    IN  builder.pc # "idle" =>
            /\ rejected <=> builder.error = "validation"
            /\ builder.error = "validation" =>
                  /\ builder.pc = "failed"
                  /\ store = builder.store_before
                  /\ ex_calls = builder.extractions_before
                  /\ optimizer.calls = builder.optimizations_before
                  /\ graph.nodes = <<>> /\ builder.in_flight = {}

\* a one-node build rejected after an earlier build has persisted its graph
C3_Witness ==
    /\ builder.error = "validation"
    /\ Len(builder.nodes) = 1
    /\ store.rels # <<>>

\* C7: the phases of a build are strictly ordered: when extraction starts every
\* node is inserted; when optimize starts extraction has returned and every
\* extracted relationship is inserted; the complexity check runs only after
\* optimize has returned.
C7_PhasesOrdered ==
    /\ builder.extraction_started =>
          /\ builder.nodes_at_extract = Len(builder.nodes)
          /\ builder.in_flight_at_extract = 0
    /\ builder.optimize_started =>
          /\ builder.extraction_returned
          /\ builder.relationships_at_optimize = Len(builder.relationships)
          /\ builder.nodes_at_extract = Len(builder.nodes)
    /\ builder.validated => builder.optimize_returned

\* a build of three nodes that went through every phase
C7_Witness ==
    /\ builder.validated
    /\ Len(builder.nodes) = 3
    /\ Len(builder.relationships) = 3

\* C22: at every moment of a build at most 5 node insertions are in flight; a
\* step that starts node insertions leaves none of the earlier ones in flight;
\* and the relationships are inserted sub-batch after sub-batch, at most 5 in
\* each.
C22_InsertionsBounded ==
    [][/\ Cardinality(builder'.in_flight) <= 5
       /\ builder'.in_flight \ builder.in_flight # {} =>
             builder'.in_flight \cap builder.in_flight = {}
       /\ Len(graph'.relationships) <= Len(graph.relationships) + 5]_vars

\* a build of six nodes whose second sub-batch of nodes is inserted and whose
\* first sub-batch of five relationships is inserted, with more to come
C22_Witness ==
    /\ Len(builder.nodes) = 6
    /\ Len(graph.nodes) = 6
    /\ builder.pc = "relationships"
    /\ Len(graph.relationships) = 5
    /\ Len(builder.relationships) > 5

(***************************************************************************)
(* Specification SpecComplexity: a Graph filled through add_node and       *)
(* add_relationships_batch and judged by validate_graph_complexity, the    *)
(* check build_graph applies to the graph it is about to return.           *)
(***************************************************************************)
MaxComplexityNodes == 7    \* nodes 1..MaxComplexityNodes are added in order

InitComplexity ==
    /\ InitExtractor
    /\ store = EmptyStore
    /\ graph = NewGraph(1)
    /\ builder = IdleBuilder
    /\ optimizer = IdleOptimizer
    /\ holders = <<>>

\* await graph.add_node(node) for the next node
CxAddNode ==
    /\ Len(graph.nodes) < MaxComplexityNodes
    /\ LET out == add_node(graph, store, GoodNode(Len(graph.nodes) + 1))
       IN  /\ graph' = out.graph
           /\ store' = out.store
    /\ builder' = [builder EXCEPT !.complexity = "unknown"]
    /\ UNCHANGED <<now, ex_nodes, ex_batch_size, ex_sims, ex_result, ex_calls,
                   relationship_cache, next_id, optimizer, holders>>

\* The relationships from node u to every other node the graph has now
StarFrom(u, fresh) ==
    LET targets == SelectSeq(graph.nodes, LAMBDA n : n # u)
    IN  [k \in 1..Len(targets) |->
            Relationship(fresh + k - 1, "IS_RELATED", u, targets[k], 5000, 80)]

\* await graph.add_relationships_batch(batch): the nodes get their outgoing
\* relationships in the order of their ids, each node once
CxAddRelationships ==
    /\ builder.next <= Len(graph.nodes)
    /\ Len(graph.nodes) >= 2
    /\ LET batch == StarFrom(builder.next, next_id)
           out == add_relationships_batch(graph, store, batch)
       IN  /\ out.ok
           /\ graph' = out.graph
           /\ store' = out.store
           /\ next_id' = next_id + Len(batch)
    /\ builder' = [builder EXCEPT !.next = @ + 1, !.complexity = "unknown"]
    /\ UNCHANGED <<now, ex_nodes, ex_batch_size, ex_sims, ex_result, ex_calls,
                   relationship_cache, optimizer, holders>>

\* await self.validate_graph_complexity(graph)
CxValidate ==
    /\ builder.complexity = "unknown"
    /\ builder' = [builder EXCEPT !.complexity =
                      IF validate_graph_complexity(graph) THEN "passed" ELSE "failed"]
    /\ UNCHANGED <<now, ex_nodes, ex_batch_size, ex_sims, ex_result, ex_calls,
                   relationship_cache, next_id, store, graph, optimizer, holders>>

NextComplexity == CxAddNode \/ CxAddRelationships \/ CxValidate

SpecComplexity == InitComplexity /\ [][NextComplexity]_vars

MaxOptRuns == 2       \* optimize calls in one behaviour

\* The persisted graphs: three nodes and any of the six relationships between
\* them, ids 1..6
OptRelationships ==
    <<Relationship(1, "IS_RELATED", 1, 3, 3000, 80),
      Relationship(2, "IS_RELATED", 1, 2, 10000, 80),
      Relationship(3, "IS_RELATED", 2, 3, 6000, 80),
      Relationship(4, "IS_RELATED", 3, 1, 10000, 80),
      Relationship(5, "IS_RELATED", 2, 1, 5000, 80),
      Relationship(6, "IS_RELATED", 3, 2, 9000, 80)>>

\* A persisted graph of more than one optimizer batch: 1 -> 3 (0.3) and 1 -> 2
\* (1.0) come first, 2 -> 3 (0.6) comes last, and between them are parallel
\* relationships 3 -> 1
OptLargeRelationships ==
    [i \in 1..(OPTIMIZATION_BATCH_SIZE + 1) |->
        IF i = 1 THEN Relationship(i, "IS_RELATED", 1, 3, 3000, 80)
        ELSE IF i = 2 THEN Relationship(i, "IS_RELATED", 1, 2, 10000, 80)
        ELSE IF i = OPTIMIZATION_BATCH_SIZE + 1
             THEN Relationship(i, "IS_RELATED", 2, 3, 6000, 80)
        ELSE Relationship(i, "IS_RELATED", 3, 1, 10000, 80)]

\* The Graph object of a persisted graph: its nodes (in the order of their ids)
\* and its relationships are the persisted ones
PersistedGraph(id, st) ==
    [NewGraph(id) EXCEPT
        !.nodes = [k \in 1..Cardinality(st.nodes) |->
                      CHOOSE n \in st.nodes : Cardinality({m \in st.nodes : m < n}) = k - 1],
        !.relationships = get_relationships(st)]

OptStores ==
    {[nodes |-> {1, 2, 3}, rels |-> [i \in S |-> OptRelationships[i]]] :
        S \in SUBSET (1..Len(OptRelationships))}
      \cup {[nodes |-> {1, 2, 3}, rels |-> OptLargeRelationships]}

InitOptimize ==
    /\ now = 0
    /\ ex_nodes = <<>>
    /\ ex_batch_size = 0
    /\ ex_sims = <<>>
    /\ ex_result = NoResult
    /\ ex_calls = 0
    /\ relationship_cache = <<>>
    /\ next_id = Len(OptLargeRelationships) + 1
    /\ store \in OptStores
    /\ graph = PersistedGraph(1, store)
    /\ builder = IdleBuilder
    /\ optimizer = IdleOptimizer
    /\ holders = <<>>

\* await optimizer.optimize(graph)
OptimizeCall ==
    /\ optimizer.calls < MaxOptRuns
    /\ \E out \in {decorated_optimize(optimizer.breaker, store, optimizer.metrics_cache,
                                       graph.id, next_id, now, 0)} :
          OptimizerCalled(out, Append(optimizer.runs, RunRecord(out, 0)))
    /\ UNCHANGED <<now, ex_nodes, ex_batch_size, ex_sims, ex_result, ex_calls,
                   relationship_cache, builder, holders>>

\* Time passes between two calls
OptTick ==
    /\ optimizer.calls > 0
    /\ now < MaxTicks * TickSeconds
    /\ now' = now + TickSeconds
    /\ UNCHANGED <<ex_nodes, ex_batch_size, ex_sims, ex_result, ex_calls,
                   relationship_cache, next_id, others>>

\* _cleanup_cache(cache_key): after METRICS_CACHE_TTL seconds the entry is popped
CleanupCache ==
    /\ \E cache_key \in DOMAIN optimizer.metrics_cache :
          /\ now - optimizer.metrics_cache[cache_key].cached_at >= METRICS_CACHE_TTL
          /\ optimizer' = [optimizer EXCEPT !.metrics_cache =
                              [k \in (DOMAIN @) \ {cache_key} |-> @[k]]]
    /\ UNCHANGED <<now, ex_nodes, ex_batch_size, ex_sims, ex_result, ex_calls,
                   relationship_cache, next_id, store, graph, builder, holders>>

NextOptimize == OptimizeCall \/ OptTick \/ CleanupCache

SpecOptimize == InitOptimize /\ [][NextOptimize]_vars

\* C9: an optimize call deletes a relationship u -> v of the persisted graph if
\* and only if another simple path from u to v in that graph has a product of
\* weights strictly greater than the relationship's weight.
C9_DeletedIffStrongerPath ==
    \A n \in 1..Len(optimizer.runs) :
        LET run == optimizer.runs[n]
            G == DiGraph(get_relationships(run.store_before))
        IN  \A i \in DOMAIN run.store_before.rels :
               LET r == run.store_before.rels[i]
               IN  (i \notin DOMAIN run.store_after.rels)
                     <=> \E path \in all_simple_paths(G, r.source_id, r.target_id) :
                            Len(path) > 2 /\ PathStronger(G, path, r.weight)

\* C10: when optimize has returned twice in succession, the second run deleted
\* no relationship and each of its final metrics is within 0.01 of the first
\* run's final metric.
C10_SecondRunChangesNothing ==
    (Len(optimizer.runs) = 2
       /\ optimizer.runs[1].status = "returned" /\ optimizer.runs[2].status = "returned") =>
        LET first == optimizer.runs[1]
            second == optimizer.runs[2]
            Delta(m) == IF second.final_metrics[m] >= first.final_metrics[m]
                        THEN second.final_metrics[m] - first.final_metrics[m]
                        ELSE first.final_metrics[m] - second.final_metrics[m]
        IN  /\ DOMAIN second.store_before.rels \subseteq DOMAIN second.store_after.rels
            /\ \A m \in {"density", "average_clustering", "average_shortest_path",
                         "average_degree"} : Delta(m) <= 100
            /\ \A m \in {"node_count", "edge_count", "diameter",
                         "strongly_connected_components"} : Delta(m) = 0

(***************************************************************************)
(* Specification SpecFault: optimize called up to MaxFaultRuns times on    *)
(* one persisted graph while the persistence collaborator fails one query  *)
(* of a call (or none).                                                    *)
(***************************************************************************)
MaxFaultRuns == 2     \* optimize calls in one behaviour
MaxFailAt == 5        \* the query that fails is among the first MaxFailAt of a call

\* A persisted graph of two optimizer batches, each with a redundant relationship:
\* 1 -> 3 (0.3) beside 1 -> 2 -> 3 in the first, 2 -> 1 (0.2) beside 2 -> 3 -> 1
\* in the second; the first batch is filled up with parallel relationships 3 -> 1
OptFaultRelationships ==
    [i \in 1..(OPTIMIZATION_BATCH_SIZE + 3) |->
        IF i = 1 THEN Relationship(i, "IS_RELATED", 1, 3, 3000, 80)
        ELSE IF i = 2 THEN Relationship(i, "IS_RELATED", 1, 2, 10000, 80)
        ELSE IF i = 3 THEN Relationship(i, "IS_RELATED", 2, 3, 6000, 80)
        ELSE IF i <= OPTIMIZATION_BATCH_SIZE
             THEN Relationship(i, "IS_RELATED", 3, 1, 10000, 80)
        ELSE IF i = OPTIMIZATION_BATCH_SIZE + 1
             THEN Relationship(i, "IS_RELATED", 2, 1, 2000, 80)
        ELSE IF i = OPTIMIZATION_BATCH_SIZE + 2
             THEN Relationship(i, "IS_RELATED", 2, 3, 10000, 80)
        ELSE Relationship(i, "IS_RELATED", 3, 1, 10000, 80)]

FaultStores ==
    OptStores \cup {[nodes |-> {1, 2, 3}, rels |-> OptFaultRelationships]}

InitFault ==
    /\ now = 0
    /\ ex_nodes = <<>>
    /\ ex_batch_size = 0
    /\ ex_sims = <<>>
    /\ ex_result = NoResult
    /\ ex_calls = 0
    /\ relationship_cache = <<>>
    /\ next_id = Len(OptFaultRelationships) + 1
    /\ store \in FaultStores
    /\ graph = PersistedGraph(1, store)
    /\ builder = IdleBuilder
    /\ optimizer = IdleOptimizer
    /\ holders = <<>>

\* await optimizer.optimize(graph), during which query fail_at fails
FaultyOptimizeCall(fail_at) ==
    /\ optimizer.calls < MaxFaultRuns
    /\ \E out \in {decorated_optimize(optimizer.breaker, store, optimizer.metrics_cache,
                                       graph.id, next_id, now, fail_at)} :
          OptimizerCalled(out, Append(optimizer.runs, RunRecord(out, fail_at)))
    /\ UNCHANGED <<now, ex_nodes, ex_batch_size, ex_sims, ex_result, ex_calls,
                   relationship_cache, builder, holders>>

NextFault == \E fail_at \in 0..MaxFailAt : FaultyOptimizeCall(fail_at)

SpecFault == InitFault /\ [][NextFault]_vars

\* C11: when a query fails while optimize processes batch k, optimize raises;
\* the relationships of the batches before k are as the passes leave them
\* (deleted or re-weighted, not restored); the relationships of the batches
\* after k are untouched; no relationship has been created by rebalancing; and
\* graph.metadata is as it was before the call.
C11_FailedBatchLeavesEarlierBatches ==
    \A n \in 1..Len(optimizer.runs) :
        LET run == optimizer.runs[n]
            before == run.store_before.rels
            after == run.store_after.rels
            relationships == get_relationships(run.store_before)
            k == run.batches
            Batch(j) == {relationships[m].id :
                            m \in ((j - 1) * 100 + 1)..Min(j * 100, Len(relationships))}
            earlier == UNION {Batch(j) : j \in 1..(k - 1)}
            later == UNION {Batch(j) : j \in (k + 1)..((Len(relationships) + 99) \div 100)}
            passed == OptimizeBatches(Connection(run.store_before, 0),
                                      relationships, 1).store.rels
            metadata_after == IF n < Len(optimizer.runs)
                              THEN optimizer.runs[n + 1].metadata_before
                              ELSE graph.metadata
        IN  (run.fail_at > 0 /\ run.queries = run.fail_at /\ ~run.rebalancing) =>
                /\ run.status = "raised"
                /\ \A i \in earlier :
                      /\ i \in DOMAIN after <=> i \in DOMAIN passed
                      /\ i \in DOMAIN after => after[i] = passed[i]
                /\ \A i \in later : i \in DOMAIN after /\ after[i] = before[i]
                /\ DOMAIN after \subseteq DOMAIN before
                /\ run.next_id_after = run.next_id_before
                /\ metadata_after = run.metadata_before

\* a call failed in its second batch after the first batch had deleted a
\* relationship and re-weighted another
C11_Witness ==
    /\ optimizer.runs # <<>>
    /\ LET run == optimizer.runs[1]
       IN  /\ run.status = "raised" /\ run.queries = run.fail_at
           /\ run.batches = 2 /\ ~run.rebalancing
           /\ 1 \notin DOMAIN run.store_after.rels
           /\ run.store_after.rels[2].weight # run.store_before.rels[2].weight
           /\ "last_optimized" \notin DOMAIN graph.metadata

(***************************************************************************)
(* Specification SpecBreaker: optimize called up to MaxBreakerCalls times  *)
(* on one persisted graph; the persistence collaborator fails the first    *)
(* query of a call or none; time passes between the calls.                 *)
(***************************************************************************)
MaxBreakerCalls == 7      \* optimize calls in one behaviour
MaxBreakerTicks == 3      \* clock ticks in one behaviour
BreakerTickSeconds == 30  \* length of one clock tick

\* Two persisted graphs on which optimize returns when no query fails:
\* 1 -> 2 (1.0) with 2 -> 1 (0.5), and 1 -> 3 (0.3) with 3 -> 1 (1.0)
BreakerStores ==
    {[nodes |-> {1, 2, 3}, rels |-> [i \in S |-> OptRelationships[i]]] :
        S \in {{2, 5}, {1, 4}}}

InitBreaker ==
    /\ now = 0
    /\ ex_nodes = <<>>
    /\ ex_batch_size = 0
    /\ ex_sims = <<>>
    /\ ex_result = NoResult
    /\ ex_calls = 0
    /\ relationship_cache = <<>>
    /\ next_id = Len(OptRelationships) + 1
    /\ store \in BreakerStores
    /\ graph = PersistedGraph(1, store)
    /\ builder = IdleBuilder
    /\ optimizer = IdleOptimizer
    /\ holders = <<>>

\* await optimizer.optimize(graph), during which query fail_at fails
BreakerOptimizeCall(fail_at) ==
    /\ optimizer.calls < MaxBreakerCalls
    /\ \E out \in {decorated_optimize(optimizer.breaker, store, optimizer.metrics_cache,
                                       graph.id, next_id, now, fail_at)} :
          OptimizerCalled(out, Append(optimizer.runs, RunRecord(out, fail_at)))
    /\ UNCHANGED <<now, ex_nodes, ex_batch_size, ex_sims, ex_result, ex_calls,
                   relationship_cache, builder, holders>>

\* Time passes between two calls
BreakerTick ==
    /\ optimizer.calls > 0
    /\ now < MaxBreakerTicks * BreakerTickSeconds
    /\ now' = now + BreakerTickSeconds
    /\ UNCHANGED <<ex_nodes, ex_batch_size, ex_sims, ex_result, ex_calls,
                   relationship_cache, next_id, others>>

NextBreaker ==
    \/ \E fail_at \in {0, 1} : BreakerOptimizeCall(fail_at)
    \/ BreakerTick

SpecBreaker == InitBreaker /\ [][NextBreaker]_vars

MaxGraphNodes == 3            \* nodes 1..MaxGraphNodes are added in order
MaxGraphRelationships == 3    \* relationships added in one behaviour

InitGraph ==
    /\ InitExtractor
    /\ store = EmptyStore
    /\ graph \in {Graph(1, "KNOWLEDGE_GRAPH"), Graph(1, "PREREQUISITE_GRAPH")}
    /\ builder = IdleBuilder
    /\ optimizer = IdleOptimizer
    /\ holders = [validated |-> "none"]

\* await graph.add_node(node) for the next node
GrAddNode ==
    /\ Len(graph.nodes) < MaxGraphNodes
    /\ \E out \in {add_node(graph, store, GoodNode(Len(graph.nodes) + 1))} :
          /\ graph' = out.graph
          /\ store' = out.store
    /\ holders' = [validated |-> "none"]
    /\ UNCHANGED <<now, ex_nodes, ex_batch_size, ex_sims, ex_result, ex_calls,
                   relationship_cache, next_id, builder, optimizer>>

\* rel = Relationship("IS_PREREQUISITE", source_id, target_id, weight=0.5);
\* await graph.add_relationships_batch([rel])
GrAddRelationship(source_id, target_id) ==
    /\ Len(graph.relationships) < MaxGraphRelationships
    /\ RelationshipValid("IS_PREREQUISITE", source_id, target_id, 5000)
    /\ \E out \in {add_relationships_batch(graph, store,
                       <<Relationship(next_id, "IS_PREREQUISITE", source_id, target_id,
                                      5000, 80)>>)} :
          /\ out.ok
          /\ graph' = out.graph
          /\ store' = out.store
    /\ next_id' = next_id + 1
    /\ holders' = [validated |-> "none"]
    /\ UNCHANGED <<now, ex_nodes, ex_batch_size, ex_sims, ex_result, ex_calls,
                   relationship_cache, builder, optimizer>>

\* GraphSchema(**data) with the data of the Graph object
GrValidate ==
    /\ holders.validated = "none"
    /\ holders' = [validated |-> IF GraphSchemaValid(graph) THEN "accepted" ELSE "rejected"]
    /\ UNCHANGED <<now, ex_nodes, ex_batch_size, ex_sims, ex_result, ex_calls,
                   relationship_cache, next_id, store, graph, builder, optimizer>>

NextGraph ==
    \/ GrAddNode
    \/ \E source_id, target_id \in 1..MaxGraphNodes : GrAddRelationship(source_id, target_id)
    \/ GrValidate

SpecGraph == InitGraph /\ [][NextGraph]_vars

\* the relationships have a directed cycle: a relationship from a node to
\* itself, or a path from the target of a relationship back to its source
HasDirectedCycle(rels) ==
    \E e \in DiGraph(rels).edges :
        e[1] = e[2] \/ all_simple_paths(DiGraph(rels), e[2], e[1]) # {}

\* C15: a PREREQUISITE_GRAPH whose relationships contain a directed cycle is
\* never accepted by the validation of its data.
C15_CyclicPrerequisiteGraphRejected ==
    (graph.type = "PREREQUISITE_GRAPH" /\ HasDirectedCycle(graph.relationships)
       /\ holders.validated # "none") =>
        holders.validated = "rejected"

\* C16: the source_id and the target_id of every relationship of the Graph
\* object are ids of nodes of the graph, and the validation of a graph with a
\* relationship one of whose endpoints is not a node of the graph is rejected,
\* whatever the number of nodes.
C16_EndpointsAreNodes ==
    /\ \A k \in 1..Len(graph.relationships) :
          /\ graph.relationships[k].source_id \in Range(graph.nodes)
          /\ graph.relationships[k].target_id \in Range(graph.nodes)
    /\ (holders.validated # "none"
          /\ \E k \in 1..Len(graph.relationships) :
                \/ graph.relationships[k].source_id \notin Range(graph.nodes)
                \/ graph.relationships[k].target_id \notin Range(graph.nodes)) =>
           holders.validated = "rejected"

\* C17: no relationship of the Graph object or of the store has a source_id
\* equal to its target_id.
C17_NoSelfRelationshipAnywhere ==
    /\ \A k \in 1..Len(graph.relationships) :
          graph.relationships[k].source_id # graph.relationships[k].target_id
    /\ \A i \in DOMAIN store.rels :
          store.rels[i].source_id # store.rels[i].target_id

(***************************************************************************)
(* Further claims about optimize (SpecOptimize)                            *)
(***************************************************************************)
\* C14: when the last optimize call has returned, the final metrics it recorded
\* in graph.metadata.optimization_metrics are the metrics of the persisted
\* relationship graph as it stands after the passes of that call.
C14_FinalMetricsAfterPasses ==
    (optimizer.runs # <<>>
       /\ optimizer.runs[Len(optimizer.runs)].status = "returned"
       /\ MetricsDefined(DiGraph(get_relationships(store)))) =>
        graph.metadata.optimization_metrics.final
            = GraphMetrics(DiGraph(get_relationships(store)))

\* C20: after optimize has returned, the Graph object holds exactly the
\* relationships the store holds: the same number and the same ids.
C20_GraphObjectFollowsStore ==
    (optimizer.runs # <<>>
       /\ optimizer.runs[Len(optimizer.runs)].status = "returned") =>
        /\ Len(graph.relationships) = Cardinality(DOMAIN store.rels)
        /\ {graph.relationships[k].id : k \in 1..Len(graph.relationships)}
              = DOMAIN store.rels

(***************************************************************************)
(* Further claims about extract_relationships (SpecExtract)                *)
(***************************************************************************)
\* C13: when the similarity collaborator fails for a pair whose similarity a
\* call requested, the call still returns; the failed pair yields no
\* relationship of that call, and every other requested pair that was answered
\* 0.7 or more has its relationship in the returned list.
C13_PairFailureSkipped ==
    (ex_calls > 0 /\ \E p \in ex_result.requested : ex_sims[p] = SimFail) =>
        /\ Returned
        /\ \A r \in ReturnedRels :
              FromCache(r) \/ \E q \in ex_result.requested :
                                  ex_sims[q] # SimFail
                                  /\ <<r.source_id, r.target_id>> = PairIds(q)
        /\ \A q \in ex_result.requested :
              ex_sims[q] >= 70 =>
                  \E r \in ReturnedRels : <<r.source_id, r.target_id>> = PairIds(q)

\* C18: for node A (id 1, level 1) and node B (id 2, level 2), in either order,
\* with similarity 0.85, the call returns exactly one relationship: an
\* IS_PREREQUISITE from A to B.
C18_PrerequisiteFromLowerLevel ==
    (Returned /\ ex_nodes \in LevelInputs /\ ex_batch_size = 0
       /\ \A p \in ComparedPairs : p \in ex_result.requested /\ ex_sims[p] = 85) =>
        /\ Len(ex_result.relationships) = 1
        /\ \A r \in ReturnedRels :
              r.type = "IS_PREREQUISITE" /\ r.source_id = 1 /\ r.target_id = 2

\* C19: for three nodes without level, scope, type or references and with
\* pairwise similarity 0.95, the call returns exactly three relationships, one
\* for each pair, each IS_RELATED with weight 0.7 * 0.95 * the average of the
\* two quality scores.
C19_NearIdenticalNodesAreRelated ==
    (Returned /\ ex_nodes = <<Plain(1), Plain(2), Plain(3)>> /\ ex_batch_size = 0
       /\ \A p \in ComparedPairs : p \in ex_result.requested /\ ex_sims[p] = 95) =>
        /\ Len(ex_result.relationships) = 3
        /\ \A i, j \in 1..3 :
              i < j => \E r \in ReturnedRels : r.source_id = i /\ r.target_id = j
        /\ \A r \in ReturnedRels :
              /\ r.type = "IS_RELATED"
              /\ r.weight = (7 * 95 * ((5000 + 5000) \div 2)) \div 1000

(***************************************************************************)
(* build_graph run from its call to its end as one operator, for the       *)
(* claims about the outcome of whole builds.  The steps are those of the   *)
(* actions of SpecBuild; the add_node tasks complete in list order.        *)
(***************************************************************************)
\* the outcome of a build that raised: error names the step that raised
BuildRaised(error, g, st, cache, fresh, opt) ==
    [status |-> "raised", error |-> error, name |-> "none", graph |-> g, store |-> st,
     cache |-> cache, next_id |-> fresh, optimizer |-> opt]

\* the loop over node_batches: every node of the list is added
RECURSIVE BuildAddNodes(_, _, _)
BuildAddNodes(added, nodes, k) ==
    IF k > Len(nodes) THEN added
    ELSE BuildAddNodes(add_node(added.graph, added.store, nodes[k]), nodes, k + 1)

\* the loop over relationship_batches
RECURSIVE BuildAddBatches(_, _, _, _)
BuildAddBatches(added, relationships, batch_size, i) ==
    IF ~added.ok \/ i > Len(relationships) THEN added
    ELSE BuildAddBatches(
             add_relationships_batch(added.graph, added.store,
                 SubSeq(relationships, i, Min(i + batch_size - 1, Len(relationships)))),
             relationships, batch_size, i + batch_size)

\* the optimizer after a call of optimize at time t with outcome out
OptimizerAfter(opt, out, t) ==
    [opt EXCEPT !.metrics_cache = out.metrics_cache,
                !.calls = @ + 1,
                !.breaker = IF out.status = "rejected" THEN @
                            ELSE BreakerAfter(@, t, out.status = "raised")]

\* build_graph from validate_graph_complexity on: the graph is returned under
\* the requested name, or GraphValidationError is raised
BuildComplexity(graph_name, g, extracted, optimized, opt) ==
    IF validate_graph_complexity(g)
    THEN [status |-> "returned", error |-> "none", name |-> graph_name, graph |-> g,
          store |-> optimized.store, cache |-> extracted.cache,
          next_id |-> optimized.next_id, optimizer |-> opt]
    ELSE BuildRaised("complexity", g, optimized.store, extracted.cache,
                     optimized.next_id, opt)

\* build_graph after optimize: its exception leaves the build
BuildOptimized(graph_name, added, extracted, optimized, opt) ==
    IF optimized.status # "returned"
    THEN BuildRaised("optimization", added.graph, optimized.store, extracted.cache,
                     optimized.next_id, opt)
    ELSE BuildComplexity(graph_name,
                         [added.graph EXCEPT !.metadata = optimized.metadata @@ @],
                         extracted, optimized, opt)

\* build_graph after the relationships are added
BuildRelationshipsAdded(graph_name, added, extracted, opt, t, optimized) ==
    IF ~added.ok
    THEN BuildRaised("operation", added.graph, added.store, extracted.cache,
                     extracted.next_id, opt)
    ELSE BuildOptimized(graph_name, added, extracted, optimized,
                        OptimizerAfter(opt, optimized, t))

\* build_graph after extract_relationships
BuildExtracted(graph_name, nodes, added, extracted, opt, t, with_relationships) ==
    IF extracted.status = "raised"
    THEN BuildRaised("extraction", added.graph, added.store, extracted.cache,
                     extracted.next_id, opt)
    ELSE BuildRelationshipsAdded(graph_name, with_relationships, extracted, opt, t,
             decorated_optimize(opt.breaker, with_relationships.store, opt.metrics_cache,
                                with_relationships.graph.id, extracted.next_id, t, 0))

\* build_graph after the nodes are added
BuildNodesAdded(graph_name, nodes, added, extracted, opt, t) ==
    BuildExtracted(graph_name, nodes, added, extracted, opt, t,
        BuildAddBatches([ok |-> TRUE, graph |-> added.graph, store |-> added.store],
                        extracted.relationships,
                        Min(Len(nodes), MAX_PARALLEL_TASKS), 1))

\* build_graph(nodes, graph_name) at time t on the store st, by a builder whose
\* extractor has the cache and the id source fresh and whose optimizer is opt;
\* sims are the answers of the similarity collaborator; graph_id is the id the
\* new Graph object gets
build_graph(nodes, graph_name, sims, graph_id, st, cache, fresh, opt, t) ==
    IF ~validate_nodes(nodes)
    THEN BuildRaised("validation", NoGraph, st, cache, fresh, opt)
    ELSE BuildNodesAdded(graph_name, nodes,
             BuildAddNodes([graph |-> NewGraph(graph_id), store |-> st], nodes, 1),
             extract_relationships(nodes, 0, sims, cache, fresh, t), opt, t)

(***************************************************************************)
(* Specification SpecCancel: the builds of SpecBuild on short node lists,  *)
(* whose caller may cancel the task that runs build_graph.  The sources    *)
(* catch no CancelledError and shield nothing: task.cancel() raises        *)
(* CancelledError at the await the build is suspended in, asyncio.gather   *)
(* cancels its unfinished add_node tasks, and the error leaves build_graph *)
(* and optimize (except Exception does not catch it).  Whether the query a *)
(* cancelled task was waiting for has been executed by the database is not *)
(* determined by the program.  A cancelled build is the last of its        *)
(* behaviour.                                                              *)
(***************************************************************************)
MaxCancelAt == 3     \* the queries of optimize at which a cancellation arrives

CancelInputs == {GoodList(2), ReversedList(2), GoodList(3), GoodList(MaxBuildNodes)}

\* cancellation during await asyncio.gather(*node_tasks): the tasks in flight
\* are cancelled inside node.save(); executed holds those whose query the
\* database had executed
CancelNodes ==
    /\ builder.pc = "nodes"
    /\ \E executed \in SUBSET builder.in_flight :
          store' = [store EXCEPT !.nodes = @ \cup {builder.nodes[k].id : k \in executed}]
    /\ builder' = [builder EXCEPT !.pc = "cancelled", !.error = "nodes", !.in_flight = {}]
    /\ UNCHANGED <<now, ex_nodes, ex_batch_size, ex_sims, ex_result, ex_calls,
                   relationship_cache, next_id, graph, optimizer, holders>>

\* cancellation during await extract_relationships(nodes): nothing is written
CancelExtract ==
    /\ builder.pc = "extract"
    /\ builder' = [builder EXCEPT !.pc = "cancelled", !.error = "extraction"]
    /\ UNCHANGED <<now, ex_nodes, ex_batch_size, ex_sims, ex_result, ex_calls,
                   relationship_cache, next_id, store, graph, optimizer, holders>>

\* cancellation during await graph.add_relationships_batch(batch), inside a
\* Relationship.batch_save(rel_group): the groups before it are saved and
\* appended to graph.relationships, the group in flight is saved or not, the
\* groups after it are not reached
CancelRelationships ==
    /\ builder.pc = "relationships"
    /\ LET last == Min(builder.next + builder.batch_size - 1, Len(builder.relationships))
           batch == SubSeq(builder.relationships, builder.next, last)
           types == TypesInOrder(batch, {})
       IN  \E j \in 1..Len(types) : \E executed \in BOOLEAN :
             \E saved \in {SaveGroups(graph, store, batch, SubSeq(types, 1, j - 1))} :
                /\ graph' = saved.graph
                /\ store' = IF executed
                            THEN batch_save(saved.store,
                                            SelectSeq(batch, LAMBDA r : r.type = types[j]))
                            ELSE saved.store
    /\ builder' = [builder EXCEPT !.pc = "cancelled", !.error = "relationships"]
    /\ UNCHANGED <<now, ex_nodes, ex_batch_size, ex_sims, ex_result, ex_calls,
                   relationship_cache, next_id, optimizer, holders>>

\* cancellation during await self._graph_optimizer.optimize(graph), inside the
\* execute_async_query call number cancel_at of that invocation, which is not
\* executed: the passes are left as by an exception of that query
CancelOptimize(cancel_at) ==
    /\ builder.pc = "optimize"
    /\ \E out \in {optimize(store, optimizer.metrics_cache, graph.id, next_id, now,
                            cancel_at)} :
          /\ out.status = "raised"
          /\ out.queries = cancel_at
          /\ store' = out.store
          /\ next_id' = out.next_id
          /\ optimizer' = [optimizer EXCEPT
                              !.metrics_cache = out.metrics_cache,
                              !.calls = @ + 1,
                              !.runs = Append(@, RunRecord(out, cancel_at))]
    /\ builder' = [builder EXCEPT !.pc = "cancelled", !.error = "optimization",
                                  !.optimize_started = TRUE,
                                  !.relationships_at_optimize = Len(graph.relationships)]
    /\ UNCHANGED <<now, ex_nodes, ex_batch_size, ex_sims, ex_result, ex_calls,
                   relationship_cache, graph, holders>>

NextCancel ==
    \/ \E nodes \in CancelInputs : BuildStart(nodes)
    \/ \E k \in 1..MaxBuildNodes : NodeAdded(k)
    \/ BuildExtract
    \/ BuildAddRelationships
    \/ BuildOptimize
    \/ BuildValidate
    \/ CancelNodes
    \/ CancelExtract
    \/ CancelRelationships
    \/ \E cancel_at \in 1..MaxCancelAt : CancelOptimize(cancel_at)

InitCancel == InitExtractor /\ InitOthers

SpecCancel == InitCancel /\ [][NextCancel]_vars

\* C23: when a build has been cancelled, every sub-batch that had been started
\* has run to completion: the nodes of the started node batches are persisted
\* and in the graph, the relationships of the started relationship batches are
\* persisted and in the graph, and an optimizer batch that had been started has
\* had both of its passes applied to the store.
C23_CancelledBatchesComplete ==
    builder.pc = "cancelled" =>
        /\ builder.error = "nodes" =>
              \A k \in 1..Min(builder.next + builder.batch_size - 1, Len(builder.nodes)) :
                  /\ builder.nodes[k].id \in store.nodes
                  /\ builder.nodes[k].id \in Range(graph.nodes)
        /\ builder.error = "relationships" =>
              \A k \in 1..Min(builder.next + builder.batch_size - 1,
                              Len(builder.relationships)) :
                  /\ builder.relationships[k].id \in DOMAIN store.rels
                  /\ builder.relationships[k] \in Range(graph.relationships)
        /\ builder.error = "optimization" =>
              LET run == optimizer.runs[Len(optimizer.runs)]
                  done == OptimizeBatches(Connection(run.store_before, 0),
                                          get_relationships(run.store_before), 1).store
              IN  run.batches > 0 =>
                      \A i \in DOMAIN run.store_before.rels :
                          /\ i \in DOMAIN run.store_after.rels <=> i \in DOMAIN done.rels
                          /\ i \in DOMAIN done.rels =>
                                run.store_after.rels[i].weight = done.rels[i].weight

(***************************************************************************)
(* Specification SpecTrial: one GraphBuilder on one store builds every     *)
(* candidate once, in any order.  A candidate is a node list that          *)
(* validate_nodes accepts together with the answer the similarity          *)
(* collaborator gives for each pair; no collaborator fails.  The longest   *)
(* list has MaxTrialNodes nodes, the least number with which every node    *)
(* can have MIN_CONNECTIONS_PER_NODE connections.                          *)
(***************************************************************************)
MaxTrialNodes == 11

TrialCandidates ==
    <<[nodes |-> GoodList(2), answer |-> 90],
      [nodes |-> ReversedList(2), answer |-> 90],
      [nodes |-> GoodList(3), answer |-> 90],
      [nodes |-> ReversedList(3), answer |-> 90],
      [nodes |-> GoodList(2), answer |-> 65],
      [nodes |-> GoodList(MaxTrialNodes), answer |-> 90]>>

Untried == [status |-> "untried", error |-> "none", name |-> "none", nodes |-> 0]

InitTrial ==
    /\ InitExtractor
    /\ store = EmptyStore
    /\ graph = NoGraph
    /\ builder = IdleBuilder
    /\ optimizer = IdleOptimizer
    /\ holders = [c \in 1..Len(TrialCandidates) |-> Untried]

\* await builder.build_graph(nodes, "trial") for candidate c
TrialBuild(c) ==
    /\ holders[c].status = "untried"
    /\ \E out \in {build_graph(TrialCandidates[c].nodes, "trial",
                       [p \in Range(AllNodePairs(1, Len(TrialCandidates[c].nodes),
                                                 Len(TrialCandidates[c].nodes)))
                          |-> TrialCandidates[c].answer],
                       builder.builds + 1, store, relationship_cache, next_id,
                       optimizer, now)} :
          /\ store' = out.store
          /\ graph' = out.graph
          /\ relationship_cache' = out.cache
          /\ next_id' = out.next_id
          /\ optimizer' = out.optimizer
          /\ holders' = [holders EXCEPT ![c] =
                            [status |-> out.status, error |-> out.error,
                             name |-> out.name, nodes |-> Len(out.graph.nodes)]]
    /\ builder' = [builder EXCEPT !.builds = @ + 1]
    /\ UNCHANGED <<now, ex_nodes, ex_batch_size, ex_sims, ex_result, ex_calls>>

NextTrial == \E c \in 1..Len(TrialCandidates) : TrialBuild(c)

SpecTrial == InitTrial /\ [][NextTrial]_vars

\* C21: build can succeed: when every candidate has been built, one of the
\* builds has returned a Graph that carries the requested name and has one node
\* for each input node.
C21_BuildCanSucceed ==
    (\A c \in 1..Len(TrialCandidates) : holders[c].status # "untried") =>
        \E c \in 1..Len(TrialCandidates) :
            /\ holders[c].status = "returned"
            /\ holders[c].name = "trial"
            /\ holders[c].nodes = Len(TrialCandidates[c].nodes)

(***************************************************************************)
(* Specification SpecFilter: filter_relationships on a list of             *)
(* relationships around one node (the hub), long enough for the hub to     *)
(* meet MAX_RELATIONSHIPS_PER_NODE.  Relationship k of the list joins the  *)
(* hub and node k + 1; the lists differ in their length, in the order of   *)
(* their weights, in the place of a relationship below the similarity      *)
(* threshold and in one more relationship that does not touch the hub or   *)
(* joins the hub to itself.                                                *)
(***************************************************************************)
MaxSpokes == 22        \* longest list of relationships around the hub

SpokeCounts == {3, MAX_RELATIONSHIPS_PER_NODE, MAX_RELATIONSHIPS_PER_NODE + 1, MaxSpokes}

\* weight of spoke k of n under an order of weights
SpokeWeight(order, k, n) ==
    CASE order = "descending" -> WeightScale - 100 * k
      [] order = "ascending"  -> WeightScale - 100 * (n + 1 - k)
      [] order = "constant"   -> 5000
      [] OTHER                -> IF k % 2 = 0 THEN 8000 ELSE 6000

\* the relationships of one input: spokes 1..n, spoke low (if any) below the
\* threshold, spokes directed to or from the hub in turn, and one more
\* relationship chosen by extra
FilterInput(n, order, low, extra) ==
    LET spokes == [k \in 1..n |->
                     Relationship(k, "IS_RELATED",
                                  IF k % 2 = 0 THEN k + 1 ELSE 1,
                                  IF k % 2 = 0 THEN 1 ELSE k + 1,
                                  SpokeWeight(order, k, n),
                                  IF k = low THEN 65 ELSE 80)]
    IN  CASE extra = "strong_side" ->
                 <<Relationship(n + 1, "IS_RELATED", 2, 3, WeightScale, 90)>> \o spokes
          [] extra = "weak_side" ->
                 spokes \o <<Relationship(n + 1, "IS_RELATED", 2, 3, 0, 90)>>
          [] extra = "self" ->
                 <<Relationship(n + 1, "IS_RELATED", 1, 1, WeightScale, 90)>> \o spokes
          [] OTHER -> spokes

FilterInputs ==
    {FilterInput(n, order, low, extra) :
        n \in SpokeCounts,
        order \in {"descending", "ascending", "constant", "alternating"},
        low \in {0, 1, 3},
        extra \in {"none", "strong_side", "weak_side", "self"}} \cup {<<>>}

InitFilter ==
    /\ InitExtractor
    /\ store = EmptyStore
    /\ graph = NoGraph
    /\ builder = IdleBuilder
    /\ optimizer = IdleOptimizer
    /\ \E relationships \in FilterInputs :
          holders = [status |-> "called", relationships |-> relationships,
                     result |-> <<>>]

\* filter_relationships(relationships) returns
FilterCall ==
    /\ holders.status = "called"
    /\ holders' = [holders EXCEPT !.status = "returned",
                                  !.result = filter_relationships(holders.relationships)]
    /\ UNCHANGED <<now, ex_nodes, ex_batch_size, ex_sims, ex_result, ex_calls,
                   relationship_cache, next_id, store, graph, builder, optimizer>>

NextFilter == FilterCall

SpecFilter == InitFilter /\ [][NextFilter]_vars

\* position i of the input is in the returned list
Kept(i) ==
    \E k \in 1..Len(holders.result) : holders.result[k].id = holders.relationships[i].id

\* position j of the input is reached before position i in the order of
\* non-increasing weight (equal weights in the order of the input)
ReachedBefore(j, i) ==
    \/ holders.relationships[j].weight > holders.relationships[i].weight
    \/ holders.relationships[j].weight = holders.relationships[i].weight /\ j < i

\* the kept relationships with endpoint e that are reached before position i
\* and weigh at least as much
KeptBeforeAt(e, i) ==
    {j \in 1..Len(holders.relationships) :
        /\ Kept(j) /\ ReachedBefore(j, i)
        /\ holders.relationships[j].weight >= holders.relationships[i].weight
        /\ e \in {holders.relationships[j].source_id, holders.relationships[j].target_id}}

MaxRebalanceCalls == 2     \* rebalance_structure calls in one behaviour

RebalanceRelationships ==
    <<Relationship(1, "IS_PREREQUISITE", 1, 2, 9000, 80),
      Relationship(2, "IS_PREREQUISITE", 2, 3, 8000, 80),
      Relationship(3, "REFERENCES", 1, 3, 7000, 80),
      Relationship(4, "IS_RELATED", 3, 4, 2000, 80),
      Relationship(5, "IS_RELATED", 2, 1, 6000, 80),
      Relationship(6, "EXTENDS", 4, 1, 500, 80),
      Relationship(7, "CONTAINS", 2, 4, 4000, 80)>>

RebalanceStores ==
    {[nodes |-> 1..4, rels |-> [i \in S |-> RebalanceRelationships[i]]] :
        S \in SUBSET (1..Len(RebalanceRelationships))}

InitRebalance ==
    /\ InitExtractor
    /\ store \in RebalanceStores
    /\ graph = PersistedGraph(1, store)
    /\ builder = IdleBuilder
    /\ optimizer = IdleOptimizer
    /\ holders = [calls |-> 0, store_before |-> EmptyStore, first_id |-> 1]

\* await optimizer.rebalance_structure(graph); no query fails
RebalanceCall ==
    /\ holders.calls < MaxRebalanceCalls
    /\ \E out \in {rebalance_structure(Connection(store, 0),
                                       Len(RebalanceRelationships) + next_id)} :
          /\ store' = out.db.store
          /\ next_id' = out.next_id - Len(RebalanceRelationships)
          /\ holders' = [calls |-> holders.calls + 1, store_before |-> store,
                         first_id |-> Len(RebalanceRelationships) + next_id]
    /\ UNCHANGED <<now, ex_nodes, ex_batch_size, ex_sims, ex_result, ex_calls,
                   relationship_cache, graph, builder, optimizer>>

NextRebalance == RebalanceCall

SpecRebalance == InitRebalance /\ [][NextRebalance]_vars

\* the relationships the last call created
Created == {i \in DOMAIN store.rels : i \notin DOMAIN holders.store_before.rels}

\* the weights of the stored relationships from u to v before the last call
WeightsBefore(u, v) ==
    {holders.store_before.rels[i].weight :
        i \in {j \in DOMAIN holders.store_before.rels :
                  /\ holders.store_before.rels[j].source_id = u
                  /\ holders.store_before.rels[j].target_id = v}}

\* before the last call n had a clustering coefficient below the threshold,
\* pred was a predecessor and succ a successor of n, and no relationship led
\* from pred to succ
Unjoined(n, pred, succ) ==
    LET G == DiGraph(get_relationships(holders.store_before))
    IN  /\ n \in G.nodes
        /\ clustering(G, n) < (MIN_CLUSTERING * WeightScale) \div 10
        /\ WeightsBefore(pred, n) # {}
        /\ WeightsBefore(n, succ) # {}
        /\ WeightsBefore(pred, succ) = {}

\* the minimum of the weights of the relationships pred -> n and n -> succ;
\* one value unless relationships are parallel
MinWeights(n, pred, succ) ==
    {Min(a, b) : a \in WeightsBefore(pred, n), b \in WeightsBefore(n, succ)}

MaxMetricsCalls == 3          \* calculate_metrics calls in one behaviour
MaxMetricsTicks == 4          \* clock ticks in one behaviour
MetricsTickSeconds == 150     \* length of one clock tick
MetricsGraphIds == {1, 2}

\* A persisted graph with metrics and one without
MetricsStores ==
    {[nodes |-> {1, 2, 3}, rels |-> [i \in S |-> OptRelationships[i]]] :
        S \in {{2, 5}, {2, 3}}}

\* _cleanup_cache sleeping twice as long
CleanupDue_Late(t) == t + 2 * METRICS_CACHE_TTL

\* _cleanup_cache: await asyncio.sleep(METRICS_CACHE_TTL); the time at which a
\* task created at t pops its key
CleanupDue(t) == t + METRICS_CACHE_TTL

InitMetrics ==
    /\ InitExtractor
    /\ store \in MetricsStores
    /\ graph = NoGraph
    /\ builder = IdleBuilder
    /\ optimizer = IdleOptimizer
    /\ holders = [calls |-> <<>>, cleanup_tasks |-> {}]

MetricsUnchanged ==
    UNCHANGED <<ex_nodes, ex_batch_size, ex_sims, ex_result, ex_calls,
                relationship_cache, next_id, graph, builder>>

\* calculate_metrics(graph) up to its first await: the cached dictionary is
\* returned, or the call goes on to read the relationships
MetricsCall(graph_id) ==
    /\ Len(holders.calls) < MaxMetricsCalls
    /\ now + METRICS_CACHE_TTL <= MaxMetricsTicks * MetricsTickSeconds
    /\ IF graph_id \in DOMAIN optimizer.metrics_cache
       THEN holders' = [holders EXCEPT !.calls = Append(@,
                           [pc |-> "returned", graph_id |-> graph_id, hit |-> TRUE,
                            metrics |-> calculate_metrics(store, optimizer.metrics_cache,
                                                          graph_id, now).metrics,
                            computed_at |-> optimizer.metrics_cache[graph_id].cached_at,
                            returned_at |-> now])]
       ELSE holders' = [holders EXCEPT !.calls = Append(@,
                           [pc |-> "reading", graph_id |-> graph_id, hit |-> FALSE,
                            metrics |-> <<>>, computed_at |-> 0, returned_at |-> 0])]
    /\ UNCHANGED <<now, store, optimizer>>
    /\ MetricsUnchanged

\* calculate_metrics from the return of get_relationships to its own return,
\* without an await: the metrics are computed and written over whatever the
\* cache holds for the key, and a _cleanup_cache task is created; or the
\* computation raises
MetricsComputed(c) ==
    /\ holders.calls[c].pc = "reading"
    /\ now + METRICS_CACHE_TTL <= MaxMetricsTicks * MetricsTickSeconds
    /\ LET cache_key == holders.calls[c].graph_id
           others_cached == [k \in (DOMAIN optimizer.metrics_cache) \ {cache_key} |->
                                optimizer.metrics_cache[k]]
       IN  \E out \in {calculate_metrics(store, others_cached, cache_key, now)} :
              IF out.ok
              THEN /\ optimizer' = [optimizer EXCEPT !.metrics_cache = out.metrics_cache]
                   /\ holders' = [holders EXCEPT
                         !.calls[c] = [@ EXCEPT !.pc = "returned",
                                                !.computed_at = now,
                                                !.returned_at = now],
                         !.cleanup_tasks = @ \cup {[cache_key |-> cache_key,
                                                    due |-> CleanupDue(now)]}]
              ELSE /\ holders' = [holders EXCEPT !.calls[c] = [@ EXCEPT !.pc = "raised"]]
                   /\ UNCHANGED optimizer
    /\ UNCHANGED <<now, store>>
    /\ MetricsUnchanged

\* _cleanup_cache(cache_key) after its sleep: self._metrics_cache.pop(cache_key, None)
CleanupTask(task) ==
    /\ task \in holders.cleanup_tasks
    /\ task.due <= now
    /\ optimizer' = [optimizer EXCEPT !.metrics_cache =
                        [k \in (DOMAIN @) \ {task.cache_key} |-> @[k]]]
    /\ holders' = [holders EXCEPT !.cleanup_tasks = @ \ {task}]
    /\ UNCHANGED <<now, store>>
    /\ MetricsUnchanged

\* Another writer changes the persisted relationships
MetricsStoreChanged ==
    /\ \E st \in MetricsStores \ {store} : store' = st
    /\ UNCHANGED <<now, optimizer, holders>>
    /\ MetricsUnchanged

\* The clock moves on when no _cleanup_cache task is due, by one tick or to
\* the end of the next sleep if that comes first
MetricsTick ==
    /\ now < MaxMetricsTicks * MetricsTickSeconds
    /\ \A task \in holders.cleanup_tasks : task.due > now
    /\ \E t \in {now + MetricsTickSeconds} \cup {task.due : task \in holders.cleanup_tasks} :
          /\ t <= now + MetricsTickSeconds
          /\ \A task \in holders.cleanup_tasks : t <= task.due
          /\ now' = t
    /\ UNCHANGED <<store, optimizer, holders>>
    /\ MetricsUnchanged

CleanupRuns == \E task \in holders.cleanup_tasks : CleanupTask(task)

MetricsCalled == \E graph_id \in MetricsGraphIds : MetricsCall(graph_id)

MetricsReturns == \E c \in 1..Len(holders.calls) : MetricsComputed(c)

NextMetrics ==
    \/ MetricsCalled
    \/ MetricsReturns
    \/ CleanupRuns
    \/ MetricsStoreChanged
    \/ MetricsTick

\* The event loop runs a task whose sleep is over, and time passes
SpecMetrics ==
    InitMetrics /\ [][NextMetrics]_vars /\ WF_vars(CleanupRuns) /\ WF_vars(MetricsTick)

FreshKeys(ids) ==
    {key \in {ids, <<ids[2], ids[1]>>} :
        /\ key \in DOMAIN relationship_cache
        /\ now - relationship_cache[key].timestamp < 3600}

\* the keys under which the cache holds for the two ids an entry put CACHE_TTL
\* before now or earlier
ExpiredKeys(ids) ==
    {key \in {ids, <<ids[2], ids[1]>>} :
        /\ key \in DOMAIN relationship_cache
        /\ now - relationship_cache[key].timestamp >= 3600}

\* C27: in a call of extract_relationships, a compared pair of ids for which the
\* cache holds an entry younger than 3600 s is not requested from the similarity
\* collaborator and its cached relationship is returned; an entry of 3600 s or
\* more is not returned and the similarity of its pair is requested again
C27_CacheServesPairs ==
    [][ex_calls' = ex_calls + 1 =>
          \A p \in ComparedPairs' :
              /\ FreshKeys(PairIds(p)') # {} =>
                    /\ p \notin ex_result'.requested
                    /\ Returned' =>
                          \E key \in FreshKeys(PairIds(p)') :
                              relationship_cache[key].relationship \in ReturnedRels'
              /\ (FreshKeys(PairIds(p)') = {} /\ ExpiredKeys(PairIds(p)') # {}) =>
                    /\ \E q \in ComparedPairs' :
                          PairIds(q)' = PairIds(p)' /\ q \in ex_result'.requested
                    /\ \A key \in ExpiredKeys(PairIds(p)') :
                          relationship_cache[key].relationship \notin ReturnedRels']_vars

\* the ids of the list of the last call are pairwise distinct
DistinctIds ==
    \A i, j \in 1..Len(ex_nodes) : ex_nodes[i].id = ex_nodes[j].id => i = j

\* C28: for a list of pairwise distinct ids, every relationship that
\* extract_relationships returns, computed or cached, leads from a node to a node
\* that comes later in the list, in the same batch; the returned relationships
\* hold at most one per unordered pair of ids, no two opposite ones and no
\* directed cycle
C28_ReturnedEdgesFollowListOrder ==
    (Returned /\ DistinctIds) =>
        LET size == EffectiveBatchSize(ex_batch_size, Len(ex_nodes))
            rels == ex_result.relationships
        IN  /\ \A k \in 1..Len(rels) :
                  \E i, j \in 1..Len(ex_nodes) :
                      /\ i < j
                      /\ (i - 1) \div size = (j - 1) \div size
                      /\ ex_nodes[i].id = rels[k].source_id
                      /\ ex_nodes[j].id = rels[k].target_id
            /\ \A k, l \in 1..Len(rels) :
                  {rels[k].source_id, rels[k].target_id}
                      = {rels[l].source_id, rels[l].target_id} => k = l
            /\ ~HasDirectedCycle(rels)

\* C28 witness: a call on three nodes of distinct ids returned three
\* relationships, one computed and two from the cache, which an earlier call
\* on the nodes in another order had filled
C28_Witness ==
    /\ Returned /\ DistinctIds
    /\ Len(ex_nodes) = 3
    /\ Len(ex_result.relationships) = 3
    /\ \E r \in ReturnedRels : FromCache(r)
    /\ \E r \in ReturnedRels : ~FromCache(r)

(***************************************************************************)
(* Specification SpecRedundant: remove_redundant_relationships on one      *)
(* batch, the persisted relationships of a graph of four nodes.  The       *)
(* graphs hold any of nine relationships with weights from 0 to 1, two of  *)
(* them parallel; in several of them more than one relationship is         *)
(* redundant.                                                              *)
(***************************************************************************)
MaxRedundantCalls == 2     \* remove_redundant_relationships calls in one behaviour

RedundantRelationships ==
    <<Relationship(1, "IS_PREREQUISITE", 1, 2, 10000, 80),
      Relationship(2, "IS_PREREQUISITE", 2, 3, 6000, 80),
      Relationship(3, "IS_RELATED", 1, 3, 3000, 80),
      Relationship(4, "IS_RELATED", 3, 4, 10000, 80),
      Relationship(5, "REFERENCES", 1, 4, 5000, 80),
      Relationship(6, "REFERENCES", 2, 4, 0, 80),
      Relationship(7, "EXTENDS", 3, 2, 7000, 80),
      Relationship(8, "CONTAINS", 3, 1, 9000, 80),
      Relationship(9, "IS_RELATED", 1, 3, 8000, 80)>>

RedundantStores ==
    {[nodes |-> 1..4, rels |-> [i \in S |-> RedundantRelationships[i]]] :
        S \in SUBSET (1..Len(RedundantRelationships))}

InitRedundant ==
    /\ InitExtractor
    /\ store \in RedundantStores
    /\ graph = PersistedGraph(1, store)
    /\ builder = IdleBuilder
    /\ optimizer = IdleOptimizer
    /\ holders = [calls |-> 0, store_before |-> EmptyStore]

\* await optimizer.remove_redundant_relationships(graph, batch), the batch being
\* the relationships persisted at the call; no query fails
RemoveRedundantCall ==
    /\ holders.calls < MaxRedundantCalls
    /\ store' = remove_redundant_relationships(Connection(store, 0),
                                               get_relationships(store)).store
    /\ holders' = [calls |-> holders.calls + 1, store_before |-> store]
    /\ UNCHANGED <<now, ex_nodes, ex_batch_size, ex_sims, ex_result, ex_calls,
                   relationship_cache, next_id, graph, builder, optimizer>>

NextRedundant == RemoveRedundantCall

SpecRedundant == InitRedundant /\ [][NextRedundant]_vars

\* the nodes reachable from the nodes of seen over the relationships rels
RECURSIVE ReachableFrom(_, _)
ReachableFrom(rels, seen) ==
    LET next == {rels[k].target_id : k \in {j \in 1..Len(rels) : rels[j].source_id \in seen}}
    IN  IF next \subseteq seen THEN seen ELSE ReachableFrom(rels, seen \cup next)

\* the relationships of the batch of the last call, and those of them that remain
BatchBefore == get_relationships(holders.store_before)
BatchAfter ==
    LET Remains(rel) == rel.id \in DOMAIN store.rels
    IN  SelectSeq(BatchBefore, Remains)

\* C29: a node reachable from another over the relationships of the batch
\* before remove_redundant_relationships is reachable from it over those that
\* remain after it (weights in [0, 1])
C29_RemovalKeepsReachability ==
    holders.calls > 0 =>
        \A u \in holders.store_before.nodes :
            ReachableFrom(BatchBefore, {u}) \subseteq ReachableFrom(BatchAfter, {u})

\* C29 witness: one call deleted three relationships together
C29_Witness ==
    /\ holders.calls > 0
    /\ \A k \in 1..Len(BatchBefore) :
          0 <= BatchBefore[k].weight /\ BatchBefore[k].weight <= WeightScale
    /\ Len(BatchBefore) >= Len(BatchAfter) + 3

(***************************************************************************)
(* models/node.py: Node.save and Node.update.  The stored nodes are a      *)
(* function from ids to the properties the queries set; updated_at is the  *)
(* concurrency token.  A clock reading is a number; two readings are equal *)
(* when the clock has not moved between them.                              *)
(***************************************************************************)
\* Node(label, name, properties): updated_at defaults to the time of construction
NewNode(id, properties, t) == [id |-> id, properties |-> properties, updated_at |-> t]

\* Node.save: MERGE (n:Node {id: $id}) SET ... n.updated_at = $updated_at, the
\* parameter being datetime.now() at the call; the object is not changed
Node_save(stored, node, t) ==
    (node.id :> [properties |-> node.properties, updated_at |-> t]) @@ stored

\* the query of Node.update: MATCH (n:Node {id: $id}) WHERE n.updated_at =
\* $current_updated_at SET n.properties, n.updated_at = $new_updated_at RETURN n;
\* the result is empty when no node matches
Node_update_query(stored, node, properties, t) ==
    IF node.id \in DOMAIN stored /\ stored[node.id].updated_at = node.updated_at
    THEN [result |-> TRUE,
          stored |-> [stored EXCEPT ![node.id] =
                         [properties |-> properties, updated_at |-> t]]]
    ELSE [result |-> FALSE, stored |-> stored]

\* Node.update after a non-empty result: self.properties.update(...) and
\* self.updated_at = datetime.now(), read after the await of the query
Node_update_return(node, properties, t) ==
    [node EXCEPT !.properties = properties, !.updated_at = t]

(***************************************************************************)
(* Specification SpecNode: one Node object, the only writer of its node,   *)
(* is constructed, saved and updated, while the clock moves or stands      *)
(* still between any two steps.                                            *)
(***************************************************************************)
MaxNodeTicks == 4       \* clock ticks in one behaviour
MaxNodeUpdates == 3     \* update calls in one behaviour
NodeProperties == {"p", "q"}

InitNode ==
    /\ InitExtractor
    /\ store = EmptyStore
    /\ graph = NoGraph
    /\ builder = IdleBuilder
    /\ optimizer = IdleOptimizer
    /\ holders = [object |-> NoObject, stored |-> <<>>, pc |-> "none",
                  pending |-> "", saved |-> FALSE, updates |-> 0, last |-> NoWrite]

NodeUnchanged ==
    UNCHANGED <<ex_nodes, ex_batch_size, ex_sims, ex_result, ex_calls,
                relationship_cache, next_id, store, graph, builder, optimizer>>

\* node = Node(label, name, properties)
NodeConstruct(properties) ==
    /\ holders.pc = "none"
    /\ holders' = [holders EXCEPT !.object = NewNode(1, properties, now), !.pc = "idle"]
    /\ UNCHANGED now
    /\ NodeUnchanged

\* await node.save()
NodeSave ==
    /\ holders.pc = "idle"
    /\ holders' = [holders EXCEPT
                      !.stored = Node_save(@, holders.object, now),
                      !.saved = TRUE,
                      !.last = [op |-> "save", ok |-> TRUE, after_save |-> TRUE]]
    /\ UNCHANGED now
    /\ NodeUnchanged

\* await node.update(properties) up to the result of its query: an empty
\* result raises NodeOperationError("Node was modified by another process")
NodeUpdateQuery(properties) ==
    /\ holders.pc = "idle"
    /\ holders.updates < MaxNodeUpdates
    /\ LET out == Node_update_query(holders.stored, holders.object, properties, now)
       IN  holders' = [holders EXCEPT
                          !.stored = out.stored,
                          !.updates = @ + 1,
                          !.pc = IF out.result THEN "updating" ELSE "idle",
                          !.pending = IF out.result THEN properties ELSE "",
                          !.last = IF out.result THEN @
                                   ELSE [op |-> "update", ok |-> FALSE,
                                         after_save |-> holders.saved]]
    /\ UNCHANGED now
    /\ NodeUnchanged

\* node.update from the result of its query to its return
NodeUpdateReturn ==
    /\ holders.pc = "updating"
    /\ holders' = [holders EXCEPT
                      !.object = Node_update_return(@, holders.pending, now),
                      !.pc = "idle",
                      !.pending = "",
                      !.last = [op |-> "update", ok |-> TRUE,
                                after_save |-> holders.saved]]
    /\ UNCHANGED now
    /\ NodeUnchanged

\* The clock moves
NodeTick ==
    /\ now < MaxNodeTicks
    /\ now' = now + 1
    /\ UNCHANGED holders
    /\ NodeUnchanged

NodeConstructed == \E properties \in NodeProperties : NodeConstruct(properties)

NodeUpdateCalled == \E properties \in NodeProperties : NodeUpdateQuery(properties)

NextNode ==
    \/ NodeConstructed
    \/ NodeSave
    \/ NodeUpdateCalled
    \/ NodeUpdateReturn
    \/ NodeTick

SpecNode == InitNode /\ [][NextNode]_vars

\* C30: the only writer of a node is never told of a conflict: after save() and
\* after every successful update() the token the Node object holds is the one
\* it last wrote to the store, and no update() after save() fails
C30_OnlyWriterNeverConflicts ==
    /\ (holders.saved /\ holders.pc = "idle") =>
           holders.object.updated_at = holders.stored[holders.object.id].updated_at
    /\ (holders.last.op = "update" /\ holders.last.after_save) => holders.last.ok

=============================================================================
